---- MODULE Spec2Model ----
(***************************************************************************)
(* A model of the redstone_compiler back-end (backend/compiler.rs): the   *)
(* statement loop of generate_assembly, scopes and slot allocation,       *)
(* expression lowering with register tracking, control-flow lowering with *)
(* jump marks, and the page pass of get_instructions.                     *)
(***************************************************************************)
EXTENDS Integers, Sequences, FiniteSets, TLC

VARIABLES
    body,          \* generate_assembly's argument: the top-level statements
    line,          \* number of statements the statement loop has consumed
    compiler,      \* the Compiler value (scopes, jump_marks, variables, ...)
    errors,        \* the errors collected by the statement loop
    outcomes,      \* history: per consumed statement, "" or its error kind
    result,        \* what generate_assembly returned (tag "Pending" before)
    instructions,  \* page pass: the instruction vector being rewritten
    jump_marks,    \* page pass: the mark table being shifted
    pass,          \* page pass: passes of the outer loop started so far
    changes,       \* page pass: the `changes` flag of the current pass
    cursor,        \* page pass: the index `i` of the inner loop
    inserted,      \* page pass history: one record per LCL insertion
    pagePhase,     \* page pass: "idle", "scan", "done"
    machine,       \* the target machine running the emitted code
    parser,        \* the Parser value (its token queue) inside produce_ast
    server         \* the LspServer value of mcn-ls

compileVars == <<body, line, compiler, errors, outcomes, result>>
pageVars == <<instructions, jump_marks, pass, changes, cursor, inserted, pagePhase>>
vars == <<body, line, compiler, errors, outcomes, result,
          instructions, jump_marks, pass, changes, cursor, inserted, pagePhase,
          machine, parser, server>>

----------------------------------------------------------------------------
(* Program constants and bounds *)

VAR_SLOTS == 32
PAGE_SIZE == 64
U8 == 256
I16 == 65536
NoArg == 0 - 1

----------------------------------------------------------------------------
(* Small helpers for maps (HashMap) *)

EmptyMap == [x \in {} |-> 0]

MapPut(m, k, v) == [x \in (DOMAIN m) \cup {k} |-> IF x = k THEN v ELSE m[x]]

Count(f) == Cardinality({i \in DOMAIN f : f[i]})

Min(S) == CHOOSE x \in S : \A y \in S : x <= y

----------------------------------------------------------------------------
(* frontend: Expression / ExpressionType and the operator enums *)

NumericLiteral(v, loc) == [typ |-> "NumericLiteral", value |-> v, location |-> loc]
Identifier(s, loc) == [typ |-> "Identifier", symbol |-> s, location |-> loc]
Debug(loc) == [typ |-> "Debug", location |-> loc]
Pass(loc) == [typ |-> "Pass", location |-> loc]
BinaryExpr(l, r, op, loc) ==
    [typ |-> "BinaryExpr", left |-> l, right |-> r, operator |-> op, location |-> loc]
EqExpr(l, r, op, loc) ==
    [typ |-> "EqExpr", left |-> l, right |-> r, operator |-> op, location |-> loc]
Assignment(s, v, loc) == [typ |-> "Assignment", ident |-> s, value |-> v, location |-> loc]
IAssignment(s, v, op, loc) ==
    [typ |-> "IAssignment", ident |-> s, value |-> v, operator |-> op, location |-> loc]
VarDeclaration(s, loc) == [typ |-> "VarDeclaration", ident |-> s, location |-> loc]
InlineDeclaration(s, v, loc) ==
    [typ |-> "InlineDeclaration", ident |-> s, value |-> v, location |-> loc]
EndlessLoop(b, loc) == [typ |-> "EndlessLoop", body |-> b, location |-> loc]
WhileLoop(cond, b, loc) ==
    [typ |-> "WhileLoop", condition |-> cond, body |-> b, location |-> loc]
NoAlternate == [some |-> FALSE, body |-> <<>>]
Alternate(b) == [some |-> TRUE, body |-> b]
Conditional(cond, b, paths, alt, loc) ==
    [typ |-> "Conditional", condition |-> cond, body |-> b, paths |-> paths,
     alternate |-> alt, location |-> loc]

is_commutative(op) == op \in {"Plus", "Mult", "And", "Or", "Xor"}

opposite(op) ==
    CASE op = "EqualTo" -> "NotEqualTo"
      [] op = "NotEqualTo" -> "EqualTo"
      [] op = "GreaterThan" -> "LessOrEqual"
      [] op = "LessThan" -> "GreaterOrEqual"
      [] op = "GreaterOrEqual" -> "LessThan"
      [] op = "LessOrEqual" -> "GreaterThan"

turnaround(op) ==
    CASE op = "EqualTo" -> "EqualTo"
      [] op = "NotEqualTo" -> "NotEqualTo"
      [] op = "GreaterThan" -> "LessThan"
      [] op = "LessThan" -> "GreaterThan"
      [] op = "GreaterOrEqual" -> "LessOrEqual"
      [] op = "LessOrEqual" -> "GreaterOrEqual"

from_op(op) ==
    CASE op = "EqualTo" -> "JEQ"
      [] op = "NotEqualTo" -> "JNE"
      [] op = "GreaterThan" -> "JGT"
      [] op = "LessThan" -> "JLT"
      [] op = "GreaterOrEqual" -> "JGE"
      [] op = "LessOrEqual" -> "JLE"

----------------------------------------------------------------------------
(* backend: Instruction, InstructionVariant, RegisterContents, Scope *)

PlainJumps == {"JMP", "JEQ", "JNE", "JLT", "JGT", "JLE", "JGE"}
DiscJumps == {"JMPD", "JEQD", "JNED", "JLTD", "JGTD", "JLED", "JGED"}

is_jump(variant) == variant \in PlainJumps \cup DiscJumps
disc_jump(variant) == variant \in DiscJumps

to_disc_jump(variant) ==
    CASE variant = "JMP" -> "JMPD"
      [] variant = "JEQ" -> "JEQD"
      [] variant = "JNE" -> "JNED"
      [] variant = "JLT" -> "JLTD"
      [] variant = "JGT" -> "JGTD"
      [] variant = "JLE" -> "JLED"
      [] variant = "JGE" -> "JGED"
      [] OTHER -> variant

Unknown == [k |-> "Unknown", v |-> 0]
Number(n) == [k |-> "Number", v |-> n]
Variable(s) == [k |-> "Variable", v |-> s]

DefaultState == [a |-> Unknown, b |-> Unknown]

\* `tracked` is a history field: the innermost scope's ComputerState at the
\* moment the instruction was pushed (before its own effect).
Instruction(variant, arg, loc) ==
    [variant |-> variant, arg |-> arg, orig_location |-> loc, tracked |-> DefaultState]

Code(i) == [k |-> "Code", i |-> i]
ScopeInstr(s) == [k |-> "Scope", s |-> s]

\* `root` is a history field: TRUE only for the scope Compiler::new creates.
with_state(state) ==
    [variables |-> EmptyMap, inline_variables |-> EmptyMap, instructions |-> <<>>,
     state |-> state, root |-> FALSE]

\* i16 values are kept as integers in -32768..32767
WrapI16(x) == ((x + 32768) % I16) - 32768

SignExt8(n) == IF n % U8 >= 128 THEN (n % U8) - U8 ELSE n % U8

\* SVA marks A as holding the saved variable
execute_bug_sva_tracks(instr, state) ==
    LET v == instr.variant
        n == instr.arg
    IN CASE v = "LAL" -> [state EXCEPT !.a = Number(SignExt8(n))]
         [] v = "LBL" -> [state EXCEPT !.b = Number(SignExt8(n))]
         [] v = "LAH" ->
              [state EXCEPT !.a = IF @.k = "Number"
                                  THEN Number(WrapI16((@.v % U8) + U8 * n))
                                  ELSE Unknown]
         [] v = "LBH" ->
              [state EXCEPT !.b = IF @.k = "Number"
                                  THEN Number(WrapI16((@.v % U8) + U8 * n))
                                  ELSE Unknown]
         [] v = "LA" -> [state EXCEPT !.a = Variable(n)]
         [] v = "LB" -> [state EXCEPT !.b = Variable(n)]
         [] v = "SVA" -> [state EXCEPT !.a = Variable(n)]
         [] v \in {"ADD", "SUB", "MUL", "AND", "OR", "XOR"} ->
              [state EXCEPT !.a = Unknown]
         [] OTHER -> state

\* Instruction::execute on the tracked state (backend/mod.rs is outside the
\* sources at hand; after the specification's register-state discipline).
\* SVA leaves A unchanged: after `b = 2` the register A is still tracked as
\* Number(2), which is what makes `a + b` load both operands.
execute(instr, state) ==
    LET v == instr.variant
        n == instr.arg
    IN CASE v = "LAL" -> [state EXCEPT !.a = Number(SignExt8(n))]
         [] v = "LBL" -> [state EXCEPT !.b = Number(SignExt8(n))]
         [] v = "LAH" ->
              [state EXCEPT !.a = IF @.k = "Number"
                                  THEN Number(WrapI16((@.v % U8) + U8 * n))
                                  ELSE Unknown]
         [] v = "LBH" ->
              [state EXCEPT !.b = IF @.k = "Number"
                                  THEN Number(WrapI16((@.v % U8) + U8 * n))
                                  ELSE Unknown]
         [] v = "LA" -> [state EXCEPT !.a = Variable(n)]
         [] v = "LB" -> [state EXCEPT !.b = Variable(n)]
         [] v = "SVA" -> state
         [] v \in {"ADD", "SUB", "MUL", "AND", "OR", "XOR"} ->
              [state EXCEPT !.a = Unknown]
         [] OTHER -> state

----------------------------------------------------------------------------
(* Compiler: construction and results of fallible operations *)

\* Compiler::new.  `panicked` is a history field: "" or the unwrap/expect/todo
\* or arithmetic overflow that has aborted the compilation.  `overflow_checks`
\* is the build profile: whether i16 arithmetic that overflows panics (a
\* debug build) or wraps (a release build); the code does not choose.
new ==
    [scopes |-> <<[with_state(DefaultState) EXCEPT !.root = TRUE]>>,
     main_scope |-> <<>>,
     modules |-> {},
     jump_marks |-> EmptyMap,
     variables |-> [i \in 0..(VAR_SLOTS - 1) |-> FALSE],
     panicked |-> "",
     overflow_checks |-> FALSE]

\* the compiler as either build starts it
Builds == {[new EXCEPT !.overflow_checks = checks] : checks \in BOOLEAN}

NoLoc == 0

Ok(c) == [ok |-> TRUE, c |-> c, val |-> 0, typ |-> "", location |-> NoLoc]
OkV(c, v) == [ok |-> TRUE, c |-> c, val |-> v, typ |-> "", location |-> NoLoc]
Err(c, typ, loc) == [ok |-> FALSE, c |-> c, val |-> 0, typ |-> typ, location |-> loc]

\* the `?` operator, written Try({IF r.ok THEN rest ELSE r : r \in {result}}):
\* the rest of the function on an Ok result, the Err itself otherwise
Try(results) == CHOOSE r \in results : TRUE

----------------------------------------------------------------------------
(* Compiler: scopes, slots, instruction emission *)

last_scope(c) == c.scopes[Len(c.scopes)]

is_root_scope(c) == Len(c.scopes) = 1

RECURSIVE scope_len(_)
\* the sum is a u8.  The loop adds the elements from first to last; u8
\* addition is associative, so the sum is taken here by halves, which
\* keeps the evaluation shallow on scopes of hundreds of instructions
scope_len(scope) ==
    IF scope = <<>> THEN 0
    ELSE IF Len(scope) = 1
    THEN (IF scope[1].k = "Code" THEN 1 ELSE scope_len(scope[1].s)) % U8
    ELSE (scope_len(SubSeq(scope, 1, Len(scope) \div 2))
            + scope_len(SubSeq(scope, Len(scope) \div 2 + 1, Len(scope)))) % U8

\* binds the name in the global scope instead of the innermost one
insert_inline_var_bug_global(c, symbol, value) ==
    [c EXCEPT !.scopes[1].inline_variables = MapPut(@, symbol, value)]

insert_inline_var(c, symbol, value) ==
    [c EXCEPT !.scopes[Len(c.scopes)].inline_variables = MapPut(@, symbol, value)]

\* the innermost scope (the highest index) that binds symbol, 0 if none
InnermostWith(c, field, symbol) ==
    LET hits == {d \in 1..Len(c.scopes) : symbol \in DOMAIN c.scopes[d][field]}
    IN IF hits = {} THEN 0 ELSE CHOOSE d \in hits : \A e \in hits : e <= d

get_inline_var(c, symbol, location) ==
    LET d == InnermostWith(c, "inline_variables", symbol)
    IN IF d # 0 THEN OkV(c, c.scopes[d].inline_variables[symbol])
       ELSE Err(c, "NonexistentInlineVar", location)

FreeSlots(c) == {i \in DOMAIN c.variables : ~c.variables[i]}

\* never hands out the last slot
get_next_available_slot_bug_skip_last(c) ==
    IF FreeSlots(c) \ {VAR_SLOTS - 1} = {} THEN Err(c, "None", NoLoc)
    ELSE LET index == Min(FreeSlots(c))
         IN OkV([c EXCEPT !.variables[index] = TRUE], index)

\* Option<u8>: val is the slot, ok is is_some
get_next_available_slot(c) ==
    IF FreeSlots(c) = {} THEN Err(c, "None", NoLoc)
    ELSE LET index == Min(FreeSlots(c))
         IN OkV([c EXCEPT !.variables[index] = TRUE], index)

get_var_noerror(c, symbol) ==
    LET d == InnermostWith(c, "variables", symbol)
    IN IF d # 0 THEN OkV(c, c.scopes[d].variables[symbol]) ELSE Err(c, "None", NoLoc)

get_var(c, symbol, location) ==
    LET r == get_var_noerror(c, symbol)
    IN IF r.ok THEN r ELSE Err(c, "NonexistentVar", location)

\* looks for the name in the innermost scope only
insert_var_bug_innermost_only(c, symbol, location) ==
    LET slot == get_next_available_slot(c)
    IN IF symbol \in DOMAIN last_scope(c).variables
       THEN OkV(c, last_scope(c).variables[symbol])
       ELSE IF ~slot.ok THEN Err(c, "TooManyVars", location)
       ELSE OkV([slot.c EXCEPT !.scopes[Len(c.scopes)].variables =
                                   MapPut(@, symbol, slot.val)],
                slot.val)

insert_var(c, symbol, location) ==
    LET found == get_var_noerror(c, symbol)
        slot == get_next_available_slot(c)
    IN IF found.ok THEN found
       ELSE IF ~slot.ok THEN Err(c, "TooManyVars", location)
       ELSE OkV([slot.c EXCEPT !.scopes[Len(c.scopes)].variables =
                                   MapPut(@, symbol, slot.val)],
                slot.val)

insert_temp_var(c, location) ==
    LET slot == get_next_available_slot(c)
    IN IF slot.ok THEN slot ELSE Err(c, "TooManyVars", location)

cleanup_temp_var(c, index) == [c EXCEPT !.variables[index] = FALSE]

push_instr(c, instr) ==
    LET ls == last_scope(c)
    IN [c EXCEPT !.scopes[Len(c.scopes)] =
           [ls EXCEPT !.state = execute(instr, ls.state),
                      !.instructions =
                          Append(@, Code([instr EXCEPT !.tracked = ls.state]))]]

\* the instr! macro
instr(c, variant, arg, location) == push_instr(c, Instruction(variant, arg, location))

save_to(c, slot, location) == instr(c, "SVA", slot, location)

RECURSIVE FreeAll(_, _)
\* clears the bitmap entries of a set of slots (pop_scope's loop)
FreeAll(variables, slots) ==
    IF slots = {} THEN variables
    ELSE LET s == CHOOSE x \in slots : TRUE
         IN FreeAll([variables EXCEPT ![s] = FALSE], slots \ {s})

Range(f) == {f[x] : x \in DOMAIN f}

pop_scope_bug_keep_slots(c) ==
    IF Len(c.scopes) = 1 THEN [c EXCEPT !.panicked = "pop_scope"]
    ELSE LET scope == last_scope(c)
             n == Len(c.scopes) - 1
         IN [c EXCEPT !.scopes =
                [SubSeq(c.scopes, 1, n) EXCEPT ![n].instructions =
                    Append(@, ScopeInstr(scope.instructions))]]

\* Vec1::pop fails on a one-element vector and the code unwraps the result
pop_scope(c) ==
    IF Len(c.scopes) = 1 THEN [c EXCEPT !.panicked = "pop_scope"]
    ELSE LET scope == last_scope(c)
             n == Len(c.scopes) - 1
         IN [c EXCEPT !.scopes =
                [SubSeq(c.scopes, 1, n) EXCEPT ![n].instructions =
                    Append(@, ScopeInstr(scope.instructions))],
                      !.variables = FreeAll(@, Range(scope.variables))]

insert_jump_mark(c) ==
    LET id == Cardinality(DOMAIN c.jump_marks) % U8
    IN OkV([c EXCEPT !.jump_marks = MapPut(@, id, 0)], id)

SetMark(c, id, value) == [c EXCEPT !.jump_marks = MapPut(@, id, value)]

eval_condition(c, condition) ==
    IF condition.typ = "EqExpr" THEN Ok(c)
    ELSE Err(c, "NormalInEqExpr", condition.location)

----------------------------------------------------------------------------
(* Compiler: constant folding *)

RECURSIVE BitOp(_, _, _, _)
\* bitwise operation on the low n bits of two naturals
BitOp(op, x, y, n) ==
    IF n = 0 THEN 0
    ELSE LET bx == x % 2
             by == y % 2
             bit == CASE op = "And" -> IF bx = 1 /\ by = 1 THEN 1 ELSE 0
                      [] op = "Or" -> IF bx = 1 \/ by = 1 THEN 1 ELSE 0
                      [] op = "Xor" -> IF bx # by THEN 1 ELSE 0
         IN bit + 2 * BitOp(op, x \div 2, y \div 2, n - 1)

\* the arithmetic of an i16 operation when it wraps
ApplyOperator(operator, left, right) ==
    CASE operator = "Plus" -> WrapI16(left + right)
      [] operator = "Minus" -> WrapI16(left - right)
      [] operator = "Mult" -> WrapI16(left * right)
      [] OTHER -> WrapI16(BitOp(operator, left % I16, right % I16, 16))

\* whether `left operator right` on i16 leaves the i16 range
Overflows(operator, left, right) ==
    LET exact == CASE operator = "Plus" -> left + right
                   [] operator = "Minus" -> left - right
                   [] operator = "Mult" -> left * right
                   [] OTHER -> 0
    IN exact < 0 - 32768 \/ exact > 32767

\* the `match operator` of try_eval_const with plain + - *: an overflow
\* panics under overflow checks and wraps otherwise
fold_operator(c, operator, left, right) ==
    IF c.overflow_checks /\ Overflows(operator, left, right)
    THEN OkV([c EXCEPT !.panicked = "overflow"], 0)
    ELSE OkV(c, ApplyOperator(operator, left, right))

RECURSIVE try_eval_const(_, _)
\* Result<i16, Range>: on failure `location` is the offending range
try_eval_const(c, expr) ==
    CASE expr.typ = "Identifier" -> get_inline_var(c, expr.symbol, expr.location)
      [] expr.typ = "BinaryExpr" ->
           Try({IF l.ok THEN
           Try({IF r.ok THEN
               fold_operator(r.c, expr.operator, l.val, r.val) ELSE r : r \in {try_eval_const(l.c, expr.right)}}) ELSE l : l \in {try_eval_const(c, expr.left)}})
      [] expr.typ = "NumericLiteral" -> OkV(c, expr.value)
      [] OTHER -> Err(c, "NotConst", expr.location)

----------------------------------------------------------------------------
(* Compiler: expression evaluation and register discipline *)

RECURSIVE can_put_into_a(_)
can_put_into_a(expr) ==
    CASE expr.typ \in {"NumericLiteral", "Identifier"} -> TRUE
      [] expr.typ = "Assignment" -> can_put_into_a(expr.value)
      [] OTHER -> FALSE

\* takes an identifier for an operand that B cannot be loaded with
can_put_into_b_bug_literal_only(expr) == expr.typ = "NumericLiteral"

can_put_into_b(expr) == expr.typ \in {"NumericLiteral", "Identifier"}

\* i16::to_le_bytes
LowByte(value) == (value % I16) % U8
HighByte(value) == (value % I16) \div U8

\* emits the high byte also when it is 0
put_a_number_bug_always_high(c, value, location) ==
    IF last_scope(c).state.a = Number(value) THEN c
    ELSE instr(instr(c, "LAL", LowByte(value), location),
               "LAH", HighByte(value), location)

put_a_number(c, value, location) ==
    IF last_scope(c).state.a = Number(value) THEN c
    ELSE LET c1 == instr(c, "LAL", LowByte(value), location)
         IN IF HighByte(value) # 0 THEN instr(c1, "LAH", HighByte(value), location)
            ELSE c1

put_b_number(c, value, location) ==
    IF last_scope(c).state.b = Number(value) THEN c
    ELSE LET c1 == instr(c, "LBL", LowByte(value), location)
         IN IF HighByte(value) # 0 THEN instr(c1, "LBH", HighByte(value), location)
            ELSE c1

is_in_a(c, expr) ==
    CASE expr.typ = "NumericLiteral" -> last_scope(c).state.a = Number(expr.value)
      [] expr.typ = "Identifier" ->
           LET v == get_var_noerror(c, expr.symbol)
           IN v.ok /\ Variable(v.val) = last_scope(c).state.a
      [] OTHER -> FALSE

is_in_b(c, expr) ==
    CASE expr.typ = "NumericLiteral" -> last_scope(c).state.b = Number(expr.value)
      [] expr.typ = "Identifier" ->
           LET v == get_var_noerror(c, expr.symbol)
           IN v.ok /\ Variable(v.val) = last_scope(c).state.b
      [] OTHER -> FALSE

\* loads a variable into B whatever B is tracked to hold
put_into_b_bug_always_load(c, expr) ==
    CASE expr.typ = "NumericLiteral" -> Ok(put_b_number(c, expr.value, expr.location))
      [] expr.typ = "Identifier" ->
           LET inl == get_inline_var(c, expr.symbol, expr.location)
           IN IF inl.ok THEN Ok(put_b_number(c, inl.val, expr.location))
              ELSE Try({IF var.ok THEN
                       Ok(instr(c, "LB", var.val, expr.location)) ELSE var : var \in {get_var(c, expr.symbol, expr.location)}})
      [] OTHER -> Err(c, "SomethingElseWentWrong", expr.location)

put_into_b(c, expr) ==
    CASE expr.typ = "NumericLiteral" -> Ok(put_b_number(c, expr.value, expr.location))
      [] expr.typ = "Identifier" ->
           LET inl == get_inline_var(c, expr.symbol, expr.location)
           IN IF inl.ok THEN Ok(put_b_number(c, inl.val, expr.location))
              ELSE Try({IF var.ok THEN
                       IF last_scope(c).state.b = Variable(var.val) THEN Ok(c)
                       ELSE Ok(instr(c, "LB", var.val, expr.location)) ELSE var : var \in {get_var(c, expr.symbol, expr.location)}})
      [] OTHER -> Err(c, "SomethingElseWentWrong", expr.location)

put_op(c, operator, location) ==
    CASE operator = "Plus" -> instr(c, "ADD", NoArg, location)
      [] operator = "Minus" -> instr(c, "SUB", NoArg, location)
      [] operator = "Mult" -> instr(c, "MUL", NoArg, location)
      [] operator = "And" -> instr(c, "AND", NoArg, location)
      [] operator = "Or" -> instr(c, "OR", NoArg, location)
      [] operator = "Xor" -> instr(c, "XOR", NoArg, location)

switch(c, location) ==
    Try({IF temp.ok THEN
        Ok(cleanup_temp_var(
               instr(save_to(temp.c, temp.val, location), "LB", temp.val, location),
               temp.val)) ELSE temp : temp \in {insert_temp_var(c, location)}})

\* get_var(..).unwrap(): val is the slot; a missing variable panics
Unwrap(r) == IF r.ok THEN r ELSE OkV([r.c EXCEPT !.panicked = "unwrap"], 0)

\* backend/module: the registry, a static mapping from module name to
\* (exist, init, call).  Module `a` initialises; module `f` is registered
\* and its init returns a module-specific error.
ModuleRegistry == [name \in {"a", "f"} |-> [init_ok |-> name = "a"]]

exist(name) == name \in DOMAIN ModuleRegistry

init(name, c, location) ==
    IF ModuleRegistry[name].init_ok THEN Ok(c)
    ELSE Err(c, "ModuleSpecific", location)

\* the intrinsic writes A to output port 0
call(name, c, method_name, args, location) ==
    IF args = <<>> THEN Ok(instr(c, "SVA", VAR_SLOTS, location))
    ELSE Err(c, "ModuleSpecific", location)

eval_call(c, function, args) ==
    IF function.typ # "Member" THEN Err(c, "UnknownMethod", function.location)
    ELSE IF function.object.typ # "Identifier"
    THEN Err(c, "NonexistentModule", function.location)
    ELSE IF function.object.symbol \notin c.modules
    THEN Err(c, "UnlodadedModule", function.location)
    ELSE call(function.object.symbol, c, function.property, args,
              function.location)

RECURSIVE eval_expr(_, _)
RECURSIVE put_into_a(_, _)
RECURSIVE put_ab(_, _, _, _)
RECURSIVE eval_assignment(_, _, _)

eval_binary_expr(c, left, right, operator, location) ==
    Try({IF r.ok THEN
        Ok(put_op(r.c, operator, location)) ELSE r : r \in {put_ab(c, left, right, is_commutative(operator))}})

eval_iassignment(c, ident, value, operator) ==
    Try({IF r1.ok THEN
    Try({IF r2.ok THEN
        LET c3 == put_op(r2.c, operator, value.location)
        IN Try({IF slot.ok THEN
               Ok(save_to(c3, slot.val, value.location)) ELSE slot : slot \in {get_var(c3, ident, value.location)}}) ELSE r2 : r2 \in {put_into_b(r1.c, Identifier(ident, value.location))}}) ELSE r1 : r1 \in {eval_expr(c, value)}})

eval_assignment(c, symbol, value) ==
    Try({IF r1.ok THEN
    Try({IF slot.ok THEN
        Ok(instr(slot.c, "SVA", slot.val, value.location)) ELSE slot : slot \in {insert_var(r1.c, symbol, value.location)}}) ELSE r1 : r1 \in {eval_expr(c, value)}})

eval_expr(c, expr) ==
    CASE expr.typ \in {"NumericLiteral", "Identifier"} -> put_into_a(c, expr)
      [] expr.typ = "BinaryExpr" ->
           eval_binary_expr(c, expr.left, expr.right, expr.operator, expr.location)
      [] expr.typ = "Assignment" -> eval_assignment(c, expr.ident, expr.value)
      [] expr.typ = "IAssignment" ->
           eval_iassignment(c, expr.ident, expr.value, expr.operator)
      [] expr.typ = "Call" -> eval_call(c, expr.function, expr.args)
      [] expr.typ = "EqExpr" -> Err(c, "EqInNormalExpr", expr.location)
      [] expr.typ = "Debug" -> Ok(instr(c, "LAL", 17, expr.location))
      [] expr.typ = "Member" -> Err(c, "NoConstants", expr.location)
      [] OTHER -> Ok([c EXCEPT !.panicked = "todo"])

put_into_a(c, expr) ==
    CASE expr.typ = "NumericLiteral" -> Ok(put_a_number(c, expr.value, expr.location))
      [] expr.typ = "Identifier" ->
           LET inl == get_inline_var(c, expr.symbol, expr.location)
           IN IF inl.ok THEN Ok(put_a_number(c, inl.val, expr.location))
              ELSE Try({IF var.ok THEN
                       IF last_scope(c).state.a = Variable(var.val) THEN Ok(c)
                       ELSE Ok(instr(c, "LA", var.val, expr.location)) ELSE var : var \in {get_var(c, expr.symbol, expr.location)}})
      [] expr.typ = "Assignment" ->
           IF can_put_into_a(expr) THEN eval_expr(c, expr)
           ELSE Err(c, "SomethingElseWentWrong", expr.location)
      [] OTHER -> Err(c, "SomethingElseWentWrong", expr.location)

\* Res<bool>: val is `swapped`
put_ab(c, left, right, commutative) ==
    CASE can_put_into_a(left) /\ can_put_into_b(right) ->
           IF commutative
              /\ ((is_in_a(c, right) \/ is_in_b(c, left))
                  \/ (right.typ = "Identifier" /\ left.typ = "NumericLiteral"))
           THEN Try({IF r1.ok THEN
                Try({IF r2.ok THEN OkV(r2.c, TRUE) ELSE r2 : r2 \in {put_into_b(r1.c, left)}}) ELSE r1 : r1 \in {put_into_a(c, right)}})
           ELSE Try({IF r1.ok THEN
                Try({IF r2.ok THEN OkV(r2.c, FALSE) ELSE r2 : r2 \in {put_into_b(r1.c, right)}}) ELSE r1 : r1 \in {put_into_a(c, left)}})
      [] can_put_into_a(left) /\ ~can_put_into_b(right) ->
           Try({IF r1.ok THEN
               IF commutative /\ can_put_into_b(left)
               THEN Try({IF r2.ok THEN OkV(r2.c, TRUE) ELSE r2 : r2 \in {put_into_b(r1.c, left)}})
               ELSE LET sw == IF right.typ = "Assignment"
                              THEN LET slot == Unwrap(get_var(r1.c, right.ident, NoLoc))
                                   IN Ok(instr(slot.c, "LB", slot.val, right.location))
                              ELSE switch(r1.c, left.location)
                    IN Try({IF r3.ok THEN
                       Try({IF r4.ok THEN OkV(r4.c, FALSE) ELSE r4 : r4 \in {put_into_a(r3.c, left)}}) ELSE r3 : r3 \in {sw}}) ELSE r1 : r1 \in {eval_expr(c, right)}})
      [] ~can_put_into_a(left) /\ can_put_into_b(right) ->
           Try({IF r1.ok THEN
           Try({IF r2.ok THEN OkV(r2.c, FALSE) ELSE r2 : r2 \in {put_into_b(r1.c, right)}}) ELSE r1 : r1 \in {eval_expr(c, left)}})
      [] OTHER ->
           Try({IF r1.ok THEN
               IF right.typ = "Assignment"
               THEN Try({IF r2.ok THEN
                        LET slot == Unwrap(get_var(r2.c, right.ident, NoLoc))
                        IN OkV(instr(slot.c, "LB", slot.val, right.location), FALSE) ELSE r2 : r2 \in {eval_expr(r1.c, left)}})
               ELSE Try({IF temp.ok THEN
                        LET c3 == instr(temp.c, "SVA", temp.val, left.location)
                        IN Try({IF r4.ok THEN
                               OkV(cleanup_temp_var(
                                       instr(r4.c, "LB", temp.val, left.location),
                                       temp.val),
                                   FALSE) ELSE r4 : r4 \in {eval_expr(c3, left)}}) ELSE temp : temp \in {insert_temp_var(r1.c, left.location)}}) ELSE r1 : r1 \in {eval_expr(c, right)}})

put_comparison(c, left, right, operator, location, jump_to) ==
    Try({IF r.ok THEN
        LET op == IF r.val THEN turnaround(operator) ELSE operator
        IN Ok(push_instr(r.c, Instruction(from_op(op), jump_to, location))) ELSE r : r \in {put_ab(c, left, right, TRUE)}})

----------------------------------------------------------------------------
(* Compiler: statements and control flow *)

RECURSIVE eval_use(_, _, _, _)
\* for module in modules { ... }: i is the position in the list
eval_use(c, modules, i, location) ==
    IF i > Len(modules) THEN Ok(c)
    ELSE IF ~is_root_scope(c) THEN Err(c, "UseOutsideGlobalScope", location)
    ELSE IF ~exist(modules[i]) THEN Err(c, "NonexistentModule", location)
    ELSE Try({IF r.ok THEN
             eval_use([r.c EXCEPT !.modules = @ \cup {modules[i]}], modules, i + 1,
                      location) ELSE r : r \in {init(modules[i], c, location)}})

RECURSIVE eval_statement(_, _)
RECURSIVE eval_body(_, _, _)
RECURSIVE eval_paths(_, _, _, _, _, _)

\* body.into_iter().try_for_each(|line| self.eval_statement(line))
eval_body(c, stmts, i) ==
    IF i > Len(stmts) THEN Ok(c)
    ELSE Try({IF r.ok THEN eval_body(r.c, stmts, i + 1) ELSE r : r \in {eval_statement(c, stmts[i])}})

push_scope_bug_no_push(c, stmts, state) == eval_body(c, stmts, 1)

\* starts every body from the state of the enclosing scope
push_scope_bug_inherits_state(c, stmts, state) ==
    eval_body([c EXCEPT !.scopes = Append(@, with_state(last_scope(c).state))], stmts, 1)

push_scope(c, stmts, state) ==
    eval_body([c EXCEPT !.scopes = Append(@, with_state(state))], stmts, 1)

GlobalLen_bug_off_by_one(c) == (scope_len(c.scopes[1].instructions) + 1) % U8

\* Self::scope_len(&self.scopes.first().instructions)
GlobalLen(c) == scope_len(c.scopes[1].instructions)

\* the try_for_each over the elif paths; val is `last_state` afterwards
eval_paths(c, paths, index, alternate, end_id, last_state) ==
    IF index > Len(paths) THEN OkV(c, last_state)
    ELSE LET condition == paths[index].condition
             location == condition.location
         IN Try({IF r0.ok THEN
            LET mark == insert_jump_mark(c)
                next_mark_id == mark.val
            IN Try({IF r1.ok THEN
               LET state == last_scope(r1.c).state
               IN Try({IF r2.ok THEN
                  LET c3 == IF index # Len(paths) \/ alternate.some
                            THEN instr(r2.c, "JMP", end_id, location)
                            ELSE r2.c
                      c4 == pop_scope(c3)
                      c5 == SetMark(c4, next_mark_id, GlobalLen(c4))
                  IN eval_paths(c5, paths, index + 1, alternate, end_id, state) ELSE r2 : r2 \in {push_scope(r1.c, paths[index].body, state)}}) ELSE r1 : r1 \in {put_comparison(mark.c, condition.left, condition.right,
                                  opposite(condition.operator), location, next_mark_id)}}) ELSE r0 : r0 \in {eval_condition(c, condition)}})

eval_conditional(c, condition, stmts, paths, alternate) ==
    LET location == condition.location
    IN Try({IF r0.ok THEN
       LET m1 == insert_jump_mark(c)
           end_id == m1.val
           m2 == insert_jump_mark(m1.c)
           next_mark_id == m2.val
       IN Try({IF r1.ok THEN
          LET last_state == last_scope(r1.c).state
          IN Try({IF r2.ok THEN
             LET c3 == IF paths # <<>> \/ alternate.some
                       THEN instr(r2.c, "JMP", end_id, location)
                       ELSE r2.c
                 c4 == pop_scope(c3)
                 c5 == SetMark(c4, next_mark_id, GlobalLen(c4))
             IN Try({IF r6.ok THEN
                Try({IF r8.ok THEN Ok(SetMark(r8.c, end_id, GlobalLen(r8.c))) ELSE r8 : r8 \in {IF alternate.some
                    THEN Try({IF r7.ok THEN
                             Ok(pop_scope(r7.c)) ELSE r7 : r7 \in {push_scope(r6.c, alternate.body, r6.val)}})
                    ELSE Ok(r6.c)}}) ELSE r6 : r6 \in {eval_paths(c5, paths, 1, alternate, end_id, last_state)}}) ELSE r2 : r2 \in {push_scope(r1.c, stmts, last_state)}}) ELSE r1 : r1 \in {put_comparison(m2.c, condition.left, condition.right,
                             opposite(condition.operator), location, next_mark_id)}}) ELSE r0 : r0 \in {eval_condition(c, condition)}})

eval_statement(c, stmt) ==
    CASE stmt.typ = "InlineDeclaration" ->
           LET value == try_eval_const(c, stmt.value)
           IN IF ~value.ok THEN Err(c, "ForbiddenInline", value.location)
              ELSE IF value.c.panicked # "" THEN Ok(value.c)
              ELSE Ok(insert_inline_var(c, stmt.ident, value.val))
      [] stmt.typ = "Use" -> eval_use(c, stmt.imports, 1, stmt.location)
      [] stmt.typ = "VarDeclaration" ->
           Try({IF slot.ok THEN Ok(slot.c) ELSE slot : slot \in {insert_var(c, stmt.ident, stmt.location)}})
      [] stmt.typ = "Pass" -> Ok(c)
      [] stmt.typ = "EndlessLoop" ->
           LET mark == GlobalLen(c)
               m == insert_jump_mark(c)
               id == m.val
               c1 == SetMark(m.c, id, mark)
           IN Try({IF r.ok THEN
                  Ok(instr(pop_scope(r.c), "JMP", id, stmt.location)) ELSE r : r \in {push_scope(c1, stmt.body, DefaultState)}})
      [] stmt.typ = "WhileLoop" ->
           LET condition == stmt.condition
           IN Try({IF r0.ok THEN
              LET m1 == insert_jump_mark(c)
                  start_id == m1.val
                  m2 == insert_jump_mark(m1.c)
                  end_id == m2.val
              IN Try({IF r1.ok THEN
                 LET c2 == SetMark(r1.c, start_id, GlobalLen(r1.c))
                 IN Try({IF r3.ok THEN
                    Try({IF r4.ok THEN
                        LET c5 == pop_scope(r4.c)
                        IN Ok(SetMark(c5, end_id, GlobalLen(c5))) ELSE r4 : r4 \in {put_comparison(r3.c, condition.left, condition.right,
                                       condition.operator, stmt.location, start_id)}}) ELSE r3 : r3 \in {push_scope(c2, stmt.body, last_scope(c2).state)}}) ELSE r1 : r1 \in {put_comparison(m2.c, condition.left, condition.right,
                                    opposite(condition.operator), stmt.location, end_id)}}) ELSE r0 : r0 \in {eval_condition(c, condition)}})
      [] stmt.typ = "Conditional" ->
           eval_conditional(c, stmt.condition, stmt.body, stmt.paths, stmt.alternate)
      [] OTHER -> eval_expr(c, stmt)

----------------------------------------------------------------------------
(* Compiler: finalization *)

RECURSIVE flatten_scope(_)
\* depth first, in order; the concatenation is taken by halves
flatten_scope(scope) ==
    IF scope = <<>> THEN <<>>
    ELSE IF Len(scope) = 1
    THEN (IF scope[1].k = "Code" THEN <<scope[1].i>> ELSE flatten_scope(scope[1].s))
    ELSE flatten_scope(SubSeq(scope, 1, Len(scope) \div 2))
            \o flatten_scope(SubSeq(scope, Len(scope) \div 2 + 1, Len(scope)))

\* instruction vectors are 0-based in the code, sequences 1-based here
At(instrs, i) == instrs[i + 1]

InsertAt(instrs, i, x) ==
    SubSeq(instrs, 1, i) \o <<x>> \o SubSeq(instrs, i + 1, Len(instrs))

RECURSIVE move_jump_marks_in_bug_break(_, _, _, _)
\* stops at the first mark below `from` instead of skipping it
move_jump_marks_in_bug_break(marks, order, from, by) ==
    IF order = <<>> THEN marks
    ELSE IF marks[Head(order)] >= from
    THEN move_jump_marks_in_bug_break(
             [marks EXCEPT ![Head(order)] = (@ + by) % U8], Tail(order), from, by)
    ELSE marks

RECURSIVE move_jump_marks_in_bug_strict(_, _, _, _)
\* leaves a mark equal to `from` where it is
move_jump_marks_in_bug_strict(marks, order, from, by) ==
    IF order = <<>> THEN marks
    ELSE IF marks[Head(order)] > from
    THEN move_jump_marks_in_bug_strict(
             [marks EXCEPT ![Head(order)] = (@ + by) % U8], Tail(order), from, by)
    ELSE move_jump_marks_in_bug_strict(marks, Tail(order), from, by)

\* the HashMap is iterated in an arbitrary order: `order` lists its keys
RECURSIVE move_jump_marks_in(_, _, _, _)
move_jump_marks_in(marks, order, from, by) ==
    IF order = <<>> THEN marks
    ELSE LET key == Head(order)
             moved == IF marks[key] >= from
                      THEN [marks EXCEPT ![key] = (@ + by) % U8]
                      ELSE marks
         IN move_jump_marks_in(moved, Tail(order), from, by)

RECURSIVE AscendingKeys(_)
AscendingKeys(S) ==
    IF S = {} THEN <<>> ELSE <<Min(S)>> \o AscendingKeys(S \ {Min(S)})

move_jump_marks(marks, from, by) ==
    move_jump_marks_in(marks, AscendingKeys(DOMAIN marks), from, by)

\* converts forward jumps only
CrossesPage_bug_forward_only(instrs, marks, i) ==
    LET ins == At(instrs, i)
    IN /\ is_jump(ins.variant) /\ ~disc_jump(ins.variant)
       /\ ins.arg \in DOMAIN marks
       /\ i \div PAGE_SIZE < marks[ins.arg] \div PAGE_SIZE

\* whether the instruction at i is a plain jump that leaves its page
CrossesPage(instrs, marks, i) ==
    LET ins == At(instrs, i)
    IN /\ is_jump(ins.variant) /\ ~disc_jump(ins.variant)
       /\ ins.arg \in DOMAIN marks
       /\ i \div PAGE_SIZE # marks[ins.arg] \div PAGE_SIZE

\* inserts the LCL and leaves the jump plain
ConvertAt_bug_keeps_plain(instrs, marks, i, order) ==
    LET ins == At(instrs, i)
        jump_page == marks[ins.arg] \div PAGE_SIZE
        lcl == Instruction("LCL", jump_page, ins.orig_location)
    IN [instructions |-> InsertAt(instrs, i, lcl),
        jump_marks |-> move_jump_marks_in(marks, order, i % U8, 1)]

\* one conversion of insert_disc_jumps: the jump at i becomes discontinuous,
\* an LCL goes in front of it and the marks from i on move by one
ConvertAt(instrs, marks, i, order) ==
    LET ins == At(instrs, i)
        jump_page == marks[ins.arg] \div PAGE_SIZE
        converted == [instrs EXCEPT ![i + 1].variant = to_disc_jump(@)]
        lcl == Instruction("LCL", jump_page, ins.orig_location)
    IN [instructions |-> InsertAt(converted, i, lcl),
        jump_marks |-> move_jump_marks_in(marks, order, i % U8, 1)]

\* takes the first plain jump, whether it leaves its page or not
NextCrossing_bug_any_jump(instrs, marks, i) ==
    LET hits == {j \in i..(Len(instrs) - 1) :
                    is_jump(At(instrs, j).variant) /\ ~disc_jump(At(instrs, j).variant)}
    IN IF hits = {} THEN Len(instrs) ELSE Min(hits)

\* the first index >= i holding a plain jump that leaves its page, or Len
NextCrossing(instrs, marks, i) ==
    LET hits == {j \in i..(Len(instrs) - 1) : CrossesPage(instrs, marks, j)}
    IN IF hits = {} THEN Len(instrs) ELSE Min(hits)

RECURSIVE insert_disc_jumps(_, _, _, _)
\* the whole pass: i is the inner loop's index, ch the `changes` flag
insert_disc_jumps(instrs, marks, i, ch) ==
    LET j == NextCrossing(instrs, marks, i)
    IN IF j < Len(instrs)
       THEN LET st == ConvertAt(instrs, marks, j, AscendingKeys(DOMAIN marks))
            IN insert_disc_jumps(st.instructions, st.jump_marks, j + 2, TRUE)
       ELSE IF ch THEN insert_disc_jumps(instrs, marks, 0, FALSE)
       ELSE [instructions |-> instrs, jump_marks |-> marks]

\* a jump whose mark is missing panics ("Invalid jump mark"): arg stays put
replace_jump_marks(instrs, marks) ==
    [i \in 1..Len(instrs) |->
        IF is_jump(instrs[i].variant) /\ instrs[i].arg \in DOMAIN marks
        THEN [instrs[i] EXCEPT !.arg = marks[instrs[i].arg]]
        ELSE instrs[i]]

get_instructions(c) ==
    LET main == Append(c.main_scope, ScopeInstr(c.scopes[1].instructions))
        flat == flatten_scope(main)
        paged == insert_disc_jumps(flat, c.jump_marks, 0, FALSE)
    IN replace_jump_marks(paged.instructions, paged.jump_marks)

----------------------------------------------------------------------------
(* frontend/parser.rs: the recursive-descent parser.  A fallible parsing   *)
(* function returns a record [ok, p, val, typ, location]: the parser after  *)
(* the call, the parsed value when ok, the error kind and place otherwise.  *)
(* A panic unwinds through every caller, so it travels as a failed result   *)
(* whose parser has `panicked` set.  Ident locations are not kept: an       *)
(* identifier is carried by its symbol, as in the back-end's model.         *)

\* Range: a token's span is <<i, i>> for the i-th token; a + b spans both
TokenRange(i) == <<i, i>>
Span(a, b) == <<IF a[1] <= b[1] THEN a[1] ELSE b[1], IF a[2] >= b[2] THEN a[2] ELSE b[2]>>

\* Token { typ, location }; the payload of a TokenType variant is a field
Token(typ, loc) == [typ |-> typ, location |-> loc]
IdentifierToken(symbol, loc) == [typ |-> "Identifier", symbol |-> symbol, location |-> loc]
NumberToken(value, loc) == [typ |-> "Number", value |-> value, location |-> loc]
BinaryOperatorToken(op, loc) == [typ |-> "BinaryOperator", operator |-> op, location |-> loc]
EqOperatorToken(op, loc) == [typ |-> "EqOperator", operator |-> op, location |-> loc]
IOperatorToken(op, loc) == [typ |-> "IOperator", operator |-> op, location |-> loc]

Use(imports, loc) == [typ |-> "Use", imports |-> imports, location |-> loc]
Call(args, function, loc) ==
    [typ |-> "Call", args |-> args, function |-> function, location |-> loc]
Member(object, property, loc) ==
    [typ |-> "Member", object |-> object, property |-> property, location |-> loc]

\* Parser::new, and the parser once produce_ast has taken the tokens.
\* `source` and `panicked` are history fields: the token list produce_ast was
\* given, and the message of the panic that ended the run.
new_parser == [tokens |-> <<>>, source |-> <<>>, panicked |-> ""]
with_tokens(tokens) == [tokens |-> tokens, source |-> tokens, panicked |-> ""]

Parsed(p, v) == [ok |-> TRUE, p |-> p, val |-> v, typ |-> "", location |-> <<0, 0>>]
ParseErr(p, typ, loc) == [ok |-> FALSE, p |-> p, val |-> 0, typ |-> typ, location |-> loc]
\* Option::expect on None
expect_failed(p, msg) ==
    [ok |-> FALSE, p |-> [p EXCEPT !.panicked = msg], val |-> 0, typ |-> "panic",
     location |-> <<0, 0>>]

eat(p) ==
    IF p.tokens = <<>> THEN expect_failed(p, "Eof before Stream ends")
    ELSE Parsed([p EXCEPT !.tokens = Tail(@)], Head(p.tokens))

at(p) ==
    IF p.tokens = <<>> THEN expect_failed(p, "Eof before Stream ends")
    ELSE Parsed(p, Head(p.tokens))

eat_if_or(p, validator, err, location) ==
    Try({IF token.ok
        THEN IF token.val.typ \notin validator
             THEN ParseErr(token.p, err, location)
             ELSE token
        ELSE token : token \in {eat(p)}})

eat_if(p, validator, err) ==
    Try({IF token.ok
        THEN IF token.val.typ \notin validator
             THEN ParseErr(token.p, err, token.val.location)
             ELSE token
        ELSE token : token \in {eat(p)}})

RECURSIVE parse_statement(_)
RECURSIVE parse_expression(_)
RECURSIVE parse_assignment(_)
RECURSIVE parse_i_assignment(_)

parse_primary(p) ==
    Try({IF token.ok
        THEN CASE token.val.typ = "Identifier" ->
                    Parsed(token.p, Identifier(token.val.symbol, token.val.location))
               [] token.val.typ = "Number" ->
                    Parsed(token.p, NumericLiteral(token.val.value, token.val.location))
               [] token.val.typ = "Debug" ->
                    Parsed(token.p, Debug(token.val.location))
               [] token.val.typ = "OpenParen" ->
                    Try({IF value.ok
                        THEN Try({IF close.ok THEN Parsed(close.p, value.val) ELSE close : close \in {eat_if(value.p, {"CloseParen"}, "ExpectedParen")}})
                        ELSE value : value \in {parse_expression(token.p)}})
               [] token.val.typ = "Eof" ->
                    ParseErr(token.p, "Eof", token.val.location)
               [] OTHER -> ParseErr(token.p, "UnexpectedOther", token.val.location)
        ELSE token : token \in {eat(p)}})

\* the `while at is Dot` loop of parse_member, `object` being its accumulator
RECURSIVE parse_member_loop(_, _)
parse_member_loop(p, object) ==
    Try({IF current.ok
        THEN IF current.val.typ = "Dot"
             THEN Try({IF dot.ok
                      THEN Try({IF property.ok
                               THEN IF property.val.typ # "Identifier"
                                    THEN ParseErr(property.p, "InvalidDot", dot.val.location)
                                    ELSE parse_member_loop(property.p,
                                             Member(object, property.val.symbol,
                                                    Span(object.location,
                                                         property.val.location)))
                               ELSE property : property \in {parse_primary(dot.p)}})
                      ELSE dot : dot \in {eat(p)}})
             ELSE Parsed(p, object)
        ELSE current : current \in {at(p)}})

parse_member(p) ==
    Try({IF object.ok THEN parse_member_loop(object.p, object.val) ELSE object : object \in {parse_primary(p)}})

\* the `while at is Comma` loop of parse_arguments_list
RECURSIVE parse_arguments_loop(_, _)
parse_arguments_loop(p, args) ==
    Try({IF current.ok
        THEN IF current.val.typ = "Comma"
             THEN Try({IF comma.ok
                      THEN Try({IF arg.ok
                               THEN parse_arguments_loop(arg.p, Append(args, arg.val))
                               ELSE arg : arg \in {parse_expression(comma.p)}})
                      ELSE comma : comma \in {eat(p)}})
             ELSE Parsed(p, args)
        ELSE current : current \in {at(p)}})

parse_arguments_list(p) ==
    Try({IF first.ok THEN parse_arguments_loop(first.p, <<first.val>>) ELSE first : first \in {parse_expression(p)}})

\* returns [args, location]
parse_args(p) ==
    Try({IF start.ok
        THEN Try({IF current.ok
                 THEN Try({IF args.ok
                          THEN Try({IF end.ok
                                   THEN Parsed(end.p,
                                               [args |-> args.val,
                                                location |-> Span(start.val.location,
                                                                  end.val.location)])
                                   ELSE end : end \in {eat_if(args.p, {"CloseParen"},
                                                    "MissingClosingParen")}})
                          ELSE args : args \in {IF current.val.typ = "CloseParen"
                                     THEN Parsed(start.p, <<>>)
                                     ELSE parse_arguments_list(start.p)}})
                 ELSE current : current \in {at(start.p)}})
        ELSE start : start \in {eat_if(p, {"OpenFuncParen"}, "MissingOpenParen")}})

parse_call(p, caller) ==
    Try({IF args.ok
        THEN Try({IF current.ok
                 THEN IF current.val.typ = "OpenFuncParen"
                      THEN ParseErr(args.p, "FunctionChaining", current.val.location)
                      ELSE Parsed(args.p, Call(args.val.args, caller,
                                               Span(caller.location, args.val.location)))
                 ELSE current : current \in {at(args.p)}})
        ELSE args : args \in {parse_args(p)}})

parse_call_member(p) ==
    Try({IF member.ok
        THEN Try({IF current.ok
                 THEN IF current.val.typ = "OpenFuncParen"
                      THEN parse_call(member.p, member.val)
                      ELSE Parsed(member.p, member.val)
                 ELSE current : current \in {at(member.p)}})
        ELSE member : member \in {parse_member(p)}})

\* the `while at is BinaryOperator(Mult)` loop of parse_multiplicative
RECURSIVE parse_multiplicative_loop(_, _)
parse_multiplicative_loop(p, left) ==
    Try({IF current.ok
        THEN IF current.val.typ = "BinaryOperator" /\ current.val.operator = "Mult"
             THEN Try({IF op.ok
                      THEN Try({IF right.ok
                               THEN parse_multiplicative_loop(right.p,
                                        BinaryExpr(left, right.val, current.val.operator,
                                                   Span(left.location, right.val.location)))
                               ELSE right : right \in {parse_call_member(op.p)}})
                      ELSE op : op \in {eat(p)}})
             ELSE Parsed(p, left)
        ELSE current : current \in {at(p)}})

parse_multiplicative(p) ==
    Try({IF left.ok THEN parse_multiplicative_loop(left.p, left.val) ELSE left : left \in {parse_call_member(p)}})

\* the `while at is BinaryOperator(Plus | Minus)` loop of parse_additive
RECURSIVE parse_additive_loop(_, _)
parse_additive_loop(p, left) ==
    Try({IF current.ok
        THEN IF current.val.typ = "BinaryOperator"
                  /\ current.val.operator \in {"Plus", "Minus"}
             THEN Try({IF op.ok
                      THEN Try({IF right.ok
                               THEN parse_additive_loop(right.p,
                                        BinaryExpr(left, right.val, current.val.operator,
                                                   Span(left.location, right.val.location)))
                               ELSE right : right \in {parse_multiplicative(op.p)}})
                      ELSE op : op \in {eat(p)}})
             ELSE Parsed(p, left)
        ELSE current : current \in {at(p)}})

parse_additive(p) ==
    Try({IF left.ok THEN parse_additive_loop(left.p, left.val) ELSE left : left \in {parse_multiplicative(p)}})

\* the `while at is EqOperator` loop of parse_eq_expression
RECURSIVE parse_eq_loop(_, _)
parse_eq_loop(p, left) ==
    Try({IF current.ok
        THEN IF current.val.typ = "EqOperator"
             THEN Try({IF op.ok
                      THEN Try({IF right.ok
                               THEN parse_eq_loop(right.p,
                                        EqExpr(left, right.val, current.val.operator,
                                               Span(left.location, right.val.location)))
                               ELSE right : right \in {parse_additive(op.p)}})
                      ELSE op : op \in {eat(p)}})
             ELSE Parsed(p, left)
        ELSE current : current \in {at(p)}})

parse_eq_expression(p) ==
    Try({IF left.ok THEN parse_eq_loop(left.p, left.val) ELSE left : left \in {parse_additive(p)}})

parse_i_assignment(p) ==
    Try({IF left.ok
        THEN Try({IF current.ok
                 THEN IF current.val.typ = "IOperator"
                      THEN IF left.val.typ # "Identifier"
                           THEN ParseErr(left.p, "InvalidAssignment", left.val.location)
                           ELSE Try({IF op.ok
                                    THEN Try({IF value.ok
                                             THEN Parsed(value.p,
                                                      IAssignment(left.val.symbol, value.val,
                                                          current.val.operator,
                                                          Span(left.val.location,
                                                               value.val.location)))
                                             ELSE value : value \in {parse_i_assignment(op.p)}})
                                    ELSE op : op \in {eat(left.p)}})
                      ELSE Parsed(left.p, left.val)
                 ELSE current : current \in {at(left.p)}})
        ELSE left : left \in {parse_eq_expression(p)}})

parse_assignment(p) ==
    Try({IF left.ok
        THEN Try({IF current.ok
                 THEN IF current.val.typ = "Equals"
                      THEN IF left.val.typ # "Identifier"
                           THEN ParseErr(left.p, "InvalidAssignment", current.val.location)
                           ELSE Try({IF eq.ok
                                    THEN Try({IF value.ok
                                             THEN Parsed(value.p,
                                                      Assignment(left.val.symbol, value.val,
                                                          Span(left.val.location,
                                                               value.val.location)))
                                             ELSE value : value \in {parse_assignment(eq.p)}})
                                    ELSE eq : eq \in {eat(left.p)}})
                      ELSE Parsed(left.p, left.val)
                 ELSE current : current \in {at(left.p)}})
        ELSE left : left \in {parse_i_assignment(p)}})

parse_expression(p) == parse_assignment(p)

parse_inline_declaration(p) ==
    Try({IF start.ok
        THEN Try({IF token.ok
                 THEN IF token.val.typ # "Identifier"
                      THEN ParseErr(token.p, "InvalidAssignment", token.val.location)
                      ELSE Try({IF eq.ok
                               THEN Try({IF value.ok
                                        THEN Parsed(value.p,
                                                 InlineDeclaration(token.val.symbol, value.val,
                                                     Span(start.val.location,
                                                          value.val.location)))
                                        ELSE value : value \in {parse_expression(eq.p)}})
                               ELSE eq : eq \in {eat_if(token.p, {"Equals"}, "MissingEquals")}})
                 ELSE token : token \in {eat(start.p)}})
        ELSE start : start \in {eat(p)}})

parse_var_declaration(p) ==
    Try({IF start.ok
        THEN Try({IF token.ok
                 THEN IF token.val.typ = "Identifier"
                      THEN Parsed(token.p,
                                  VarDeclaration(token.val.symbol,
                                                 Span(start.val.location, token.val.location)))
                      ELSE ParseErr(token.p, "InvalidDeclartion", token.val.location)
                 ELSE token : token \in {eat(start.p)}})
        ELSE start : start \in {eat(p)}})

\* the `while at is Dot` loop of parse_use_statement; `last` is the location
\* of the last import
RECURSIVE parse_use_loop(_, _, _, _)
parse_use_loop(p, start, imports, last) ==
    Try({IF current.ok
        THEN IF current.val.typ = "Dot"
             THEN Try({IF dot.ok
                      THEN Try({IF token.ok
                               THEN IF token.val.typ = "Identifier"
                                    THEN parse_use_loop(token.p, start,
                                             Append(imports, token.val.symbol),
                                             token.val.location)
                                    ELSE ParseErr(token.p, "InvalidModuleName",
                                                  token.val.location)
                               ELSE token : token \in {eat(dot.p)}})
                      ELSE dot : dot \in {eat(p)}})
             ELSE Parsed(p, Use(imports, Span(start, last)))
        ELSE current : current \in {at(p)}})

parse_use_statement(p) ==
    Try({IF start.ok
        THEN Try({IF token.ok
                 THEN IF token.val.typ = "Identifier"
                      THEN parse_use_loop(token.p, start.val.location,
                                          <<token.val.symbol>>, token.val.location)
                      ELSE ParseErr(token.p, "InvalidModuleName", token.val.location)
                 ELSE token : token \in {eat(start.p)}})
        ELSE start : start \in {eat(p)}})

\* `while !matches!(self.at().typ, stops) { body.push(self.parse_statement()?) }`
RECURSIVE parse_block(_, _, _)
parse_block(p, stops, block) ==
    Try({IF current.ok
        THEN IF current.val.typ \in stops
             THEN Parsed(p, block)
             ELSE Try({IF stmt.ok
                      THEN parse_block(stmt.p, stops, Append(block, stmt.val))
                      ELSE stmt : stmt \in {parse_statement(p)}})
        ELSE current : current \in {at(p)}})

\* `return err!(EmptyBlock, start + self.at().location)`
empty_block(p, start) ==
    Try({IF current.ok
        THEN ParseErr(p, "EmptyBlock", Span(start, current.val.location))
        ELSE current : current \in {at(p)}})

parse_while(p) ==
    Try({IF start.ok
        THEN Try({IF condition.ok
                 THEN Try({IF block.ok
                          THEN Try({IF end.ok
                                   THEN IF block.val = <<>>
                                        THEN empty_block(end.p, start.val.location)
                                        ELSE Parsed(end.p,
                                                 WhileLoop(condition.val, block.val,
                                                     Span(start.val.location,
                                                          end.val.location)))
                                   ELSE end : end \in {eat_if_or(block.p, {"End"}, "MissingEnd",
                                                       start.val.location)}})
                          ELSE block : block \in {parse_block(condition.p, {"End", "Eof"}, <<>>)}})
                 ELSE condition : condition \in {parse_expression(start.p)}})
        ELSE start : start \in {eat(p)}})

parse_endless(p) ==
    Try({IF start.ok
        THEN Try({IF block.ok
                 THEN Try({IF end.ok
                          THEN IF block.val = <<>>
                               THEN empty_block(end.p, start.val.location)
                               ELSE Parsed(end.p,
                                        EndlessLoop(block.val,
                                            Span(start.val.location, end.val.location)))
                          ELSE end : end \in {eat_if_or(block.p, {"End"}, "MissingEnd",
                                              start.val.location)}})
                 ELSE block : block \in {parse_block(start.p, {"End", "Eof"}, <<>>)}})
        ELSE start : start \in {eat(p)}})

\* returns [condition, body]
parse_conditional_branch(p) ==
    Try({IF condition.ok
        THEN Try({IF start.ok
                 THEN Try({IF block.ok
                          THEN IF block.val = <<>>
                               THEN empty_block(block.p, start.val.location)
                               ELSE Parsed(block.p, [condition |-> condition.val,
                                                     body |-> block.val])
                          ELSE block : block \in {parse_block(condition.p,
                                                  {"Elif", "Else", "End", "Eof"}, <<>>)}})
                 ELSE start : start \in {at(condition.p)}})
        ELSE condition : condition \in {parse_expression(p)}})

\* the `while at is Elif | Eof` loop of parse_conditional
RECURSIVE parse_paths(_, _)
parse_paths(p, paths) ==
    Try({IF current.ok
        THEN IF current.val.typ \in {"Elif", "Eof"}
             THEN Try({IF elif.ok
                      THEN Try({IF branch.ok
                               THEN parse_paths(branch.p, Append(paths, branch.val))
                               ELSE branch : branch \in {parse_conditional_branch(elif.p)}})
                      ELSE elif : elif \in {eat(p)}})
             ELSE Parsed(p, paths)
        ELSE current : current \in {at(p)}})

\* the `alternate` of parse_conditional
parse_alternate(p, start) ==
    Try({IF current.ok
        THEN IF current.val.typ = "Else"
             THEN Try({IF else.ok
                      THEN Try({IF block.ok
                               THEN IF block.val = <<>>
                                    THEN empty_block(block.p, start)
                                    ELSE Parsed(block.p, Alternate(block.val))
                               ELSE block : block \in {parse_block(else.p, {"End", "Eof"}, <<>>)}})
                      ELSE else : else \in {eat(p)}})
             ELSE Parsed(p, NoAlternate)
        ELSE current : current \in {at(p)}})

parse_conditional(p) ==
    Try({IF start.ok
        THEN Try({IF branch.ok
                 THEN Try({IF paths.ok
                          THEN Try({IF alternate.ok
                                   THEN Try({IF end.ok
                                            THEN Parsed(end.p,
                                                     Conditional(branch.val.condition,
                                                         branch.val.body, paths.val,
                                                         alternate.val,
                                                         Span(start.val.location,
                                                              end.val.location)))
                                            ELSE end : end \in {eat_if_or(alternate.p, {"End"},
                                                 "MissingEnd", start.val.location)}})
                                   ELSE alternate : alternate \in {parse_alternate(paths.p,
                                                                   start.val.location)}})
                          ELSE paths : paths \in {parse_paths(branch.p, <<>>)}})
                 ELSE branch : branch \in {parse_conditional_branch(start.p)}})
        ELSE start : start \in {eat(p)}})

parse_statement(p) ==
    Try({IF current.ok
        THEN CASE current.val.typ = "Inline" -> parse_inline_declaration(p)
               [] current.val.typ = "If" -> parse_conditional(p)
               [] current.val.typ = "Pass" ->
                    Try({IF token.ok
                        THEN Parsed(token.p, Pass(token.val.location))
                        ELSE token : token \in {eat(p)}})
               [] current.val.typ = "Use" -> parse_use_statement(p)
               [] current.val.typ = "Var" -> parse_var_declaration(p)
               [] current.val.typ = "Forever" -> parse_endless(p)
               [] current.val.typ = "While" -> parse_while(p)
               [] OTHER -> parse_expression(p)
        ELSE current : current \in {at(p)}})

\* the condition of produce_ast's loop
more_statements(p) == p.tokens # <<>> /\ Head(p.tokens).typ # "Eof"

\* only the first error is returned
produce_ast_return_bug_first_error(errs) ==
    IF errs # <<>>
    THEN [tag |-> "Err", instructions |-> <<>>, errors |-> <<Head(errs)>>]
    ELSE [tag |-> "Ok", instructions |-> <<>>, errors |-> <<>>]

\* what produce_ast returns once its loop is over
produce_ast_return(errs) ==
    IF errs # <<>>
    THEN [tag |-> "Err", instructions |-> <<>>, errors |-> errs]
    ELSE [tag |-> "Ok", instructions |-> <<>>, errors |-> <<>>]

----------------------------------------------------------------------------
(* mcn-ls/src/server.rs: the language server's document store.  The two    *)
(* JavaScript callbacks of LspServer take no part in it and are left out;  *)
(* `delivered` is a history field: the reload_document calls so far.       *)

\* LspServer::new
new_server == [document |-> "", last_document_version |-> 0 - 1, delivered |-> <<>>]

\* a new server on which nothing is called
ServerIdle == new_server

\* replaces the document when the version is not lower
reload_document_bug_accepts_equal(s, text, version) ==
    LET called == [s EXCEPT !.delivered = Append(@, [text |-> text, version |-> version])]
    IN IF version < s.last_document_version THEN called
       ELSE [called EXCEPT !.last_document_version = version, !.document = text]

reload_document(s, text, version) ==
    LET called == [s EXCEPT !.delivered = Append(@, [text |-> text, version |-> version])]
    IN IF version <= s.last_document_version THEN called
       ELSE [called EXCEPT !.last_document_version = version, !.document = text]

----------------------------------------------------------------------------
(* Input families: the programs handed to generate_assembly *)

MaxStmts == 3

Lt(l, r, loc) == EqExpr(l, r, "LessThan", loc)
Eq(l, r, loc) == EqExpr(l, r, "EqualTo", loc)

\* expression statements and declarations, all located at loc
SimpleStatements(loc) ==
    LET x == Identifier("x", loc)
        u == Identifier("u", loc)
        one == NumericLiteral(1, loc)
        two == NumericLiteral(2, loc)
    IN { VarDeclaration("x", loc),
         Assignment("x", one, loc),
         IAssignment("x", two, "Minus", loc),
         BinaryExpr(BinaryExpr(x, one, "Plus", loc),
                    BinaryExpr(one, two, "Plus", loc), "Minus", loc),
         BinaryExpr(BinaryExpr(u, one, "Plus", loc),
                    BinaryExpr(one, two, "Plus", loc), "Minus", loc) }

BlockBodies(loc) ==
    { <<Assignment("y", NumericLiteral(2, loc), loc)>>,
      <<Identifier("u", loc)>> }

BlockStatements(loc) ==
    LET x == Identifier("x", loc)
        one == NumericLiteral(1, loc)
        assign == <<Assignment("y", NumericLiteral(2, loc), loc)>>
    IN UNION {
         { WhileLoop(Lt(x, one, loc), b, loc),
           EndlessLoop(b, loc),
           Conditional(Eq(x, one, loc), b, <<>>, NoAlternate, loc) } :
               b \in BlockBodies(loc) }
       \cup
       { Conditional(Eq(x, one, loc), assign,
                     <<[condition |-> Lt(one, x, loc), body |-> assign]>>,
                     Alternate(assign), loc) }

Statements(loc) == SimpleStatements(loc) \cup BlockStatements(loc)

RECURSIVE ProgramsOfLen(_)
\* every statement list of length n whose i-th statement is located at i
ProgramsOfLen(n) ==
    IF n = 0 THEN {<<>>}
    ELSE {Append(p, st) : p \in ProgramsOfLen(n - 1), st \in Statements(n)}

Programs == UNION {ProgramsOfLen(n) : n \in 1..MaxStmts}

----------------------------------------------------------------------------
(* generate_assembly: the statement loop and its return *)

Pending == [tag |-> "Pending", instructions |-> <<>>, errors |-> <<>>]

\* filter_map(|line| self.eval_statement(line).err()).collect()
collect(errs, r) ==
    IF r.ok THEN errs ELSE Append(errs, [typ |-> r.typ, location |-> r.location])

\* the tail of generate_assembly once the iterator is exhausted
generate_assembly_return(c, errs) ==
    IF errs # <<>> THEN [tag |-> "Err", instructions |-> <<>>, errors |-> errs]
    ELSE [tag |-> "Ok", instructions |-> get_instructions(c), errors |-> <<>>]

has_next_bug_stop_on_error(stmts, n, errs) == n < Len(stmts) /\ errs = <<>>

\* whether the statement loop takes another statement
has_next(stmts, n, errs) == n < Len(stmts)

PageIdle ==
    /\ instructions = <<>>
    /\ jump_marks = EmptyMap
    /\ pass = 0
    /\ changes = FALSE
    /\ cursor = 0
    /\ inserted = <<>>
    /\ pagePhase = "idle"

ParserIdle == new_parser

MachineOff == [on |-> FALSE, pc |-> 0, a |-> 0, b |-> 0, mem |-> <<>>, steps |-> 0]

CompileInit(programs) ==
    /\ body \in programs
    /\ line = 0
    /\ compiler = new
    /\ errors = <<>>
    /\ outcomes = <<>>
    /\ result = Pending

Init ==
    /\ CompileInit(Programs)
    /\ PageIdle
    /\ machine = MachineOff
    /\ parser = ParserIdle
    /\ server = ServerIdle

\* one iteration of the statement loop
EvalStatement ==
    /\ result.tag = "Pending"
    /\ compiler.panicked = ""
    /\ has_next(body, line, errors)
    /\ \E r \in {eval_statement(compiler, body[line + 1])} :
          /\ compiler' = r.c
          /\ errors' = collect(errors, r)
          /\ outcomes' = Append(outcomes, [ok |-> r.ok, typ |-> r.typ,
                                            location |-> r.location])
    /\ line' = line + 1
    /\ UNCHANGED <<body, result, pageVars, machine, parser, server>>

\* the loop is over: return the errors or finalize
Return ==
    /\ result.tag = "Pending"
    /\ compiler.panicked = ""
    /\ ~has_next(body, line, errors)
    /\ result' = generate_assembly_return(compiler, errors)
    /\ UNCHANGED <<body, line, compiler, errors, outcomes, pageVars, machine, parser, server>>

Next == EvalStatement \/ Return

Spec == Init /\ [][Next]_vars

----------------------------------------------------------------------------
(* The page pass on its own: insert_disc_jumps and replace_jump_marks     *)
(* applied to instruction vectors and mark tables drawn from a family     *)

PageSlack == 1

\* distances from a page boundary at which jumps and marks are placed
BoundaryOffsets == {0 - 1, 0, 1}

\* indices up to n that lie next to a page boundary
NearBoundary(n) ==
    {p \in 0..n : \E page \in 0..(n \div PAGE_SIZE + 1) :
        p - page * PAGE_SIZE \in BoundaryOffsets}

\* vectors that end PageSlack instructions after a page boundary
PageLens == {PAGE_SIZE + PageSlack, 2 * PAGE_SIZE + PageSlack}

\* a vector of n instructions, LAL 17 (a `debug` statement) everywhere but
\* at the positions of `jumps` (position -> [variant, arg]); every
\* instruction is located at its original index
PageVector(n, jumps) ==
    [i \in 1..n |->
        IF (i - 1) \in DOMAIN jumps
        THEN Instruction(jumps[i - 1].variant, jumps[i - 1].arg, i - 1)
        ELSE Instruction("LAL", 17, i - 1)]

\* the jumps of an input: one JMP, or a JMP and a later JLT that uses
\* either mark
PageJumps(n) ==
    {(p1 :> [variant |-> "JMP", arg |-> 0]) : p1 \in NearBoundary(n - 1)}
    \cup
    {(pp[1] :> [variant |-> "JMP", arg |-> 0]) @@ (pp[2] :> [variant |-> "JLT", arg |-> a2]) :
        pp \in {qq \in NearBoundary(n - 1) \X NearBoundary(n - 1) : qq[1] < qq[2]},
        a2 \in {0, 1}}

\* one mark per jump, each near a page boundary
PageMarks(n, jumps) == [0..(Cardinality(DOMAIN jumps) - 1) -> NearBoundary(n)]

RECURSIVE Orders(_)
\* every order in which a HashMap with key set S can be iterated
Orders(S) ==
    IF S = {} THEN {<<>>}
    ELSE UNION {{<<x>> \o o : o \in Orders(S \ {x})} : x \in S}

CompileIdle ==
    /\ body = <<>>
    /\ line = 0
    /\ compiler = new
    /\ errors = <<>>
    /\ outcomes = <<>>
    /\ result = Pending

PageInit ==
    /\ CompileIdle
    /\ machine = MachineOff
    /\ parser = ParserIdle
    /\ server = ServerIdle
    /\ \E n \in PageLens :
         \E jumps \in PageJumps(n) :
            /\ instructions = PageVector(n, jumps)
            /\ jump_marks \in PageMarks(n, jumps)
    /\ pass = 1
    /\ changes = FALSE
    /\ cursor = 0
    /\ inserted = <<>>
    /\ pagePhase = "scan"

\* the inner loop runs up to the next plain jump that leaves its page and
\* converts it; the HashMap iteration order is not determined
Convert ==
    /\ pagePhase = "scan"
    /\ LET j == NextCrossing(instructions, jump_marks, cursor)
       IN /\ j < Len(instructions)
          /\ \E order \in Orders(DOMAIN jump_marks) :
               LET st == ConvertAt(instructions, jump_marks, j, order)
               IN /\ instructions' = st.instructions
                  /\ jump_marks' = st.jump_marks
          /\ inserted' = Append(inserted,
                                [at |-> j,
                                 mark |-> At(instructions, j).arg,
                                 page |-> jump_marks[At(instructions, j).arg]
                                              \div PAGE_SIZE])
          /\ cursor' = j + 2
    /\ changes' = TRUE
    /\ UNCHANGED <<pass, pagePhase, compileVars, machine, parser, server>>

\* the inner loop reached the end of the vector after a change: loop again
NextPass ==
    /\ pagePhase = "scan"
    /\ NextCrossing(instructions, jump_marks, cursor) = Len(instructions)
    /\ changes
    /\ pass' = pass + 1
    /\ changes' = FALSE
    /\ cursor' = 0
    /\ UNCHANGED <<instructions, jump_marks, inserted, pagePhase, compileVars, machine, parser, server>>

\* a pass without changes ends insert_disc_jumps; replace_jump_marks follows
Resolve ==
    /\ pagePhase = "scan"
    /\ NextCrossing(instructions, jump_marks, cursor) = Len(instructions)
    /\ ~changes
    /\ instructions' = replace_jump_marks(instructions, jump_marks)
    /\ pagePhase' = "done"
    /\ cursor' = Len(instructions)
    /\ UNCHANGED <<jump_marks, pass, changes, inserted, compileVars, machine, parser, server>>

PageNext == Convert \/ NextPass \/ Resolve

SpecPage == PageInit /\ [][PageNext]_vars

\* the loops of insert_disc_jumps go on as long as they can
SpecPageLive == SpecPage /\ WF_vars(PageNext)

----------------------------------------------------------------------------
(* The target machine running a compiled program: what an observer of the  *)
(* emitted code has in A, B and the slots.  The emulator is not part of    *)
(* the sources; the semantics are those of the instruction set table.      *)

MaxRunSteps == 10
MaxValue == 1

alu_operator(variant) ==
    CASE variant = "ADD" -> "Plus"
      [] variant = "SUB" -> "Minus"
      [] variant = "MUL" -> "Mult"
      [] variant = "AND" -> "And"
      [] variant = "OR" -> "Or"
      [] variant = "XOR" -> "Xor"

\* whether a jump is taken with a in A and b in B
jump_taken(variant, a, b) ==
    CASE variant \in {"JMP", "JMPD"} -> TRUE
      [] variant \in {"JEQ", "JEQD"} -> a = b
      [] variant \in {"JNE", "JNED"} -> a # b
      [] variant \in {"JLT", "JLTD"} -> a < b
      [] variant \in {"JGT", "JGTD"} -> a > b
      [] variant \in {"JLE", "JLED"} -> a <= b
      [] variant \in {"JGE", "JGED"} -> a >= b

\* the machine after the instruction `ins` at its program counter
step(m, ins) ==
    LET v == ins.variant
        n == ins.arg
        next == [m EXCEPT !.pc = @ + 1, !.steps = @ + 1]
    IN CASE v = "LAL" -> [next EXCEPT !.a = SignExt8(n)]
         [] v = "LBL" -> [next EXCEPT !.b = SignExt8(n)]
         [] v = "LAH" -> [next EXCEPT !.a = WrapI16((@ % U8) + U8 * n)]
         [] v = "LBH" -> [next EXCEPT !.b = WrapI16((@ % U8) + U8 * n)]
         [] v = "LA" -> [next EXCEPT !.a = m.mem[n]]
         [] v = "LB" -> [next EXCEPT !.b = m.mem[n]]
         [] v = "SVA" -> IF n < VAR_SLOTS THEN [next EXCEPT !.mem[n] = m.a] ELSE next
         [] v \in {"ADD", "SUB", "MUL", "AND", "OR", "XOR"} ->
              [next EXCEPT !.a = ApplyOperator(alu_operator(v), m.a, m.b)]
         [] is_jump(v) ->
              IF jump_taken(v, m.a, m.b) THEN [next EXCEPT !.pc = n] ELSE next
         [] OTHER -> next

\* programs that declare x and then only read it: expression statements, a
\* conditional and a while loop over expression statements
RunStatements(loc) ==
    LET x == Identifier("x", loc)
        one == NumericLiteral(1, loc)
        two == NumericLiteral(2, loc)
    IN { two,
         BinaryExpr(x, one, "Plus", loc),
         Conditional(Eq(x, one, loc), <<two>>, <<>>, NoAlternate, loc),
         WhileLoop(Lt(x, one, loc), <<BinaryExpr(two, x, "Minus", loc)>>, loc) }

RECURSIVE RunProgramsOfLen(_)
\* `var x` followed by n - 1 statements, the i-th statement located at i
RunProgramsOfLen(n) ==
    IF n = 1 THEN {<<VarDeclaration("x", 1)>>}
    ELSE {Append(p, st) : p \in RunProgramsOfLen(n - 1), st \in RunStatements(n)}

RunPrograms == UNION {RunProgramsOfLen(n) : n \in 2..MaxStmts}

RunInit ==
    /\ CompileInit(RunPrograms)
    /\ PageIdle
    /\ machine = MachineOff
    /\ parser = ParserIdle
    /\ server = ServerIdle

\* power-on: the slots hold whatever they held, the registers too
Boot ==
    /\ result.tag = "Ok"
    /\ ~machine.on
    /\ \E x0 \in 0..MaxValue, a0 \in 0..MaxValue :
         machine' = [on |-> TRUE, pc |-> 0, a |-> a0, b |-> 0,
                     mem |-> [slot \in 0..(VAR_SLOTS - 1) |->
                                 IF slot = 0 THEN x0 ELSE 0],
                     steps |-> 0]
    /\ UNCHANGED <<compileVars, pageVars, parser, server>>

\* the machine executes the instruction at its program counter
Step ==
    /\ machine.on
    /\ machine.pc < Len(result.instructions)
    /\ machine.steps < MaxRunSteps
    /\ machine' = step(machine, At(result.instructions, machine.pc))
    /\ UNCHANGED <<compileVars, pageVars, parser, server>>

RunNext == EvalStatement \/ Return \/ Boot \/ Step

SpecRun == RunInit /\ [][RunNext]_vars

----------------------------------------------------------------------------
(* Programs that fill the register file (specification SpecSlots) *)

MaxDecls == 33

\* the name of the n-th declared variable
VarName(n) == "v" \o ToString(n)

RECURSIVE Declarations(_)
\* var v1; ...; var vn, the i-th declaration located at i
Declarations(n) ==
    IF n = 0 THEN <<>>
    ELSE Append(Declarations(n - 1), VarDeclaration(VarName(n), n))

\* statements that need one more slot: a new name, a new name inside a loop
\* body, a spilled right operand and a switch
SlotStatements(loc) ==
    LET v1 == Identifier(VarName(1), loc)
        one == NumericLiteral(1, loc)
        two == NumericLiteral(2, loc)
        w == Assignment("w", one, loc)
    IN { w,
         WhileLoop(Lt(v1, one, loc), <<w>>, loc),
         BinaryExpr(BinaryExpr(v1, one, "Plus", loc),
                    BinaryExpr(one, two, "Plus", loc), "Minus", loc),
         BinaryExpr(one, BinaryExpr(v1, one, "Plus", loc), "Minus", loc) }

SlotProgramsOf(n) == {Append(Declarations(n), st) : st \in SlotStatements(n + 1)}

SlotPrograms == UNION {SlotProgramsOf(n) : n \in (VAR_SLOTS - 1)..MaxDecls}

SlotsInit ==
    /\ CompileInit(SlotPrograms)
    /\ PageIdle
    /\ machine = MachineOff
    /\ parser = ParserIdle
    /\ server = ServerIdle

SlotsNext == EvalStatement \/ Return

SpecSlots == SlotsInit /\ [][SlotsNext]_vars

----------------------------------------------------------------------------
(* Programs over literals, variables and inline names (specification      *)
(* SpecExpr)                                                              *)

\* i16 literals around the byte boundaries of both bytes
LitValues ==
    {h * U8 + l : h \in {0 - 128, 0 - 2, 0 - 1, 0, 1, 127},
                  l \in {0, 1, 5, 127, 128, 255}}

\* a numeric literal as the only statement
LitPrograms == {<<NumericLiteral(v, 1)>> : v \in LitValues}

Operators == {"Plus", "Minus", "Mult", "And", "Or", "Xor"}

\* var a; var b; a = 1; b = 2; a = l op r, the i-th statement located at i
SumProgram(l, r, op) ==
    << VarDeclaration("a", 1),
       VarDeclaration("b", 2),
       Assignment("a", NumericLiteral(1, 3), 3),
       Assignment("b", NumericLiteral(2, 4), 4),
       Assignment("a", BinaryExpr(Identifier(l, 5), Identifier(r, 5), op, 5), 5) >>

SumPrograms == {SumProgram(l, r, op) : l \in {"a", "b"}, r \in {"a", "b"}, op \in Operators}

\* values for `inline x = e` after `var v; inline k = 2`: literals, the
\* inline name k and binary expressions of them fold; the variable v, an
\* undeclared name, an assignment, a comparison and `debug` do not
InlineValues(loc) ==
    LET lit(n) == NumericLiteral(n, loc)
        k == Identifier("k", loc)
        v == Identifier("v", loc)
    IN { lit(5), lit(300), lit(0 - 1), k }
       \cup {BinaryExpr(lit(2), lit(3), op, loc) : op \in Operators}
       \cup { BinaryExpr(k, BinaryExpr(lit(1), k, "Minus", loc), "Mult", loc),
              v, Identifier("u", loc), BinaryExpr(lit(2), v, "Plus", loc),
              Assignment("v", lit(1), loc), Debug(loc),
              Eq(lit(1), lit(1), loc) }

\* prelude; inline x = e; var y; y = x, the i-th statement located at i
InlineProgram(prelude, e) ==
    prelude \o << InlineDeclaration("x", e, Len(prelude) + 1),
                  VarDeclaration("y", Len(prelude) + 2),
                  Assignment("y", Identifier("x", Len(prelude) + 3), Len(prelude) + 3) >>

InlinePrelude == <<VarDeclaration("v", 1), InlineDeclaration("k", NumericLiteral(2, 2), 2)>>

\* var v; while v < 1: inline x = 4; v = x end; x
ScopedInlineProgram ==
    << VarDeclaration("v", 1),
       WhileLoop(Lt(Identifier("v", 2), NumericLiteral(1, 2), 2),
                 << InlineDeclaration("x", NumericLiteral(4, 2), 2),
                    Assignment("v", Identifier("x", 2), 2) >>, 2),
       Identifier("x", 3) >>

InlinePrograms ==
    {InlineProgram(InlinePrelude, e) : e \in InlineValues(3)}
    \cup {InlineProgram(<<>>, BinaryExpr(NumericLiteral(2, 1), NumericLiteral(3, 1),
                                          "Plus", 1)),
          ScopedInlineProgram}

\* i16 operands at the ends of the range and around the byte boundary
FoldOperands == {0 - 32768, 0 - 1, 0, 1, 2, 255, 256, 32767}

\* inline x = a op b for the arithmetic operators
FoldPrograms ==
    {<<InlineDeclaration("x", BinaryExpr(NumericLiteral(a, 1), NumericLiteral(b, 1),
                                         op, 1), 1)>> :
        a \in FoldOperands, b \in FoldOperands, op \in {"Plus", "Minus", "Mult"}}

MaxReads == 2

\* statements that read x, y and numbers, subtract and add them, and one
\* that shadows the variable x with an inline name
LoadStatements(loc) ==
    LET x == Identifier("x", loc)
        y == Identifier("y", loc)
    IN { x, y, NumericLiteral(5, loc), NumericLiteral(300, loc),
         BinaryExpr(x, y, "Minus", loc),
         BinaryExpr(x, y, "Plus", loc),
         BinaryExpr(x, NumericLiteral(5, loc), "Minus", loc),
         InlineDeclaration("x", NumericLiteral(5, loc), loc) }

RECURSIVE LoadProgramsOfLen(_)
\* var x; var y; and n - 2 statements, the i-th statement located at i
LoadProgramsOfLen(n) ==
    IF n = 2 THEN {<<VarDeclaration("x", 1), VarDeclaration("y", 2)>>}
    ELSE {Append(p, st) : p \in LoadProgramsOfLen(n - 1), st \in LoadStatements(n)}

LoadPrograms == UNION {LoadProgramsOfLen(n) : n \in 3..(2 + MaxReads)}

ExprPrograms ==
    LitPrograms \cup SumPrograms \cup InlinePrograms \cup FoldPrograms \cup LoadPrograms

\* either build compiles one of the programs
ExprInit ==
    /\ body \in ExprPrograms
    /\ line = 0
    /\ compiler \in Builds
    /\ errors = <<>>
    /\ outcomes = <<>>
    /\ result = Pending
    /\ PageIdle
    /\ machine = MachineOff
    /\ parser = ParserIdle
    /\ server = ServerIdle

ExprNext == EvalStatement \/ Return

SpecExpr == ExprInit /\ [][ExprNext]_vars

----------------------------------------------------------------------------
(* Programs with nested blocks (specification SpecNest).  A statement in   *)
(* the body of a block located at L is located at 10 * L + its position,   *)
(* so the location of an instruction tells which blocks it lies in.        *)

\* one or two statements, the j-th drawn from stmts[j]
BodiesOf(first, second) ==
    {<<s>> : s \in first} \cup {<<s, t>> : s \in first, t \in second}

RECURSIVE LoopStatements(_, _)
\* pass, debug and endless loops nested up to `depth` deep, located at loc
LoopStatements(loc, depth) ==
    {Pass(loc), Debug(loc)}
    \cup (IF depth = 0 THEN {}
          ELSE {EndlessLoop(b, loc) :
                   b \in BodiesOf(LoopStatements(10 * loc + 1, depth - 1),
                                  LoopStatements(10 * loc + 2, depth - 1))})

NestPrograms == BodiesOf(LoopStatements(1, 2), LoopStatements(2, 2))

NestInit ==
    /\ CompileInit(NestPrograms)
    /\ PageIdle
    /\ machine = MachineOff
    /\ parser = ParserIdle
    /\ server = ServerIdle

NestNext == EvalStatement \/ Return

SpecNest == NestInit /\ [][NestNext]_vars

\* the condition `1 == 2` spanning loc, its operands included
ConditionAt(loc) ==
    EqExpr(NumericLiteral(1, loc), NumericLiteral(2, loc), "EqualTo", loc)

RECURSIVE CondStatements(_, _)
\* debug, conditionals and endless loops nested up to `depth` deep, located
\* at loc.  The k-th branch of a conditional located at L has its condition
\* at 10 * L + k and its body in the block located there; the else body is
\* the block located at 10 * L + 9.  A body is one statement.
CondStatements(loc, depth) ==
    {Debug(loc)}
    \cup (IF depth = 0 THEN {}
          ELSE {Conditional(ConditionAt(10 * loc + 1), <<first>>, paths, alternate, loc) :
                   first \in CondStatements(10 * (10 * loc + 1) + 1, depth - 1),
                   paths \in {<<>>,
                              <<[condition |-> ConditionAt(10 * loc + 2),
                                 body |-> <<Debug(10 * (10 * loc + 2) + 1)>>],
                                [condition |-> ConditionAt(10 * loc + 3),
                                 body |-> <<Debug(10 * (10 * loc + 3) + 1)>>]>>}
                             \cup {<<[condition |-> ConditionAt(10 * loc + 2),
                                      body |-> <<second>>]>> :
                                      second \in CondStatements(10 * (10 * loc + 2) + 1,
                                                                depth - 1)},
                   alternate \in {NoAlternate}
                                 \cup {Alternate(<<last>>) :
                                          last \in CondStatements(10 * (10 * loc + 9) + 1,
                                                                  depth - 1)}}
               \cup {EndlessLoop(<<inner>>, loc) :
                        inner \in CondStatements(10 * loc + 1, depth - 1)})

\* one statement, alone or after a debug statement
CondPrograms ==
    {<<s>> : s \in CondStatements(1, 2)}
    \cup {<<Debug(1), s>> : s \in CondStatements(2, 2)}

CondInit ==
    /\ CompileInit(CondPrograms)
    /\ PageIdle
    /\ machine = MachineOff
    /\ parser = ParserIdle
    /\ server = ServerIdle

CondNext == EvalStatement \/ Return

SpecCond == CondInit /\ [][CondNext]_vars

\* the conditions of the while loops: `1 == 2` and `1 < 2` spanning loc
WhileConditions(loc) ==
    {EqExpr(NumericLiteral(1, loc), NumericLiteral(2, loc), op, loc) :
        op \in {"EqualTo", "LessThan"}}

RECURSIVE WhileStatements(_, _)
\* debug, while loops and endless loops nested up to `depth` deep, located
\* at loc; a body is one or two statements
WhileStatements(loc, depth) ==
    {Debug(loc)}
    \cup (IF depth = 0 THEN {}
          ELSE {WhileLoop(cond, b, loc) :
                   cond \in WhileConditions(loc),
                   b \in BodiesOf(WhileStatements(10 * loc + 1, depth - 1),
                                  WhileStatements(10 * loc + 2, depth - 1))}
               \cup {EndlessLoop(<<inner>>, loc) :
                        inner \in WhileStatements(10 * loc + 1, depth - 1)})

\* one statement, alone or after a debug statement
WhilePrograms ==
    {<<s>> : s \in WhileStatements(1, 2)}
    \cup {<<Debug(1), s>> : s \in WhileStatements(2, 2)}

WhileInit ==
    /\ CompileInit(WhilePrograms)
    /\ PageIdle
    /\ machine = MachineOff
    /\ parser = ParserIdle
    /\ server = ServerIdle

WhileNext == EvalStatement \/ Return

SpecWhile == WhileInit /\ [][WhileNext]_vars

----------------------------------------------------------------------------
(* Programs that load and call modules (specification SpecUse) *)

\* a.w(): the method w of module `name` called without arguments
CallOf(name, loc) == Call(<<>>, Member(Identifier(name, loc), "w", loc), loc)

\* `use` of a module that initialises (a), of one whose init fails (f), of
\* one that is not registered (g), calls, and blocks whose body is a `use`,
\* fails after binding w, or compiles
UseStatements(loc) ==
    LET one == NumericLiteral(1, loc)
        two == NumericLiteral(2, loc)
        w == Assignment("w", one, 10 * loc + 1)
        u == Identifier("u", 10 * loc + 2)
    IN { Use(<<"a">>, loc), Use(<<"f">>, loc), Use(<<"g">>, loc), Use(<<"a", "g">>, loc),
         CallOf("a", loc), CallOf("f", loc),
         EndlessLoop(<<Use(<<"a">>, 10 * loc + 1)>>, loc),
         EndlessLoop(<<w, u>>, loc),
         EndlessLoop(<<w>>, loc),
         Conditional(Eq(one, two, loc), <<w, u>>, <<>>, NoAlternate, loc) }

RECURSIVE UseProgramsOfLen(_)
\* every statement list of length n whose i-th statement is located at i
UseProgramsOfLen(n) ==
    IF n = 0 THEN {<<>>}
    ELSE {Append(p, st) : p \in UseProgramsOfLen(n - 1), st \in UseStatements(n)}

UsePrograms == UNION {UseProgramsOfLen(n) : n \in 1..MaxStmts}

UseInit ==
    /\ CompileInit(UsePrograms)
    /\ PageIdle
    /\ machine = MachineOff
    /\ parser = ParserIdle
    /\ server = ServerIdle

UseNext == EvalStatement \/ Return

SpecUse == UseInit /\ [][UseNext]_vars

----------------------------------------------------------------------------
(* Programs whose blocks start with a load (specification SpecState) *)

\* the first statement of a body: a load of 1, of 2 or of x, or debug
FirstStatements(loc) ==
    {NumericLiteral(1, loc), NumericLiteral(2, loc), Identifier("x", loc), Debug(loc)}

\* comparisons that leave x, 1 or 2 in A
StateConditions(loc) ==
    {Eq(Identifier("x", loc), NumericLiteral(1, loc), loc),
     Eq(NumericLiteral(1, loc), NumericLiteral(2, loc), loc),
     Lt(NumericLiteral(2, loc), Identifier("x", loc), loc)}

\* a loop or a conditional located at loc whose bodies are one statement;
\* the k-th branch of a conditional has its condition at 10 * loc + k and
\* its body in the block located there, the else body is the block located
\* at 10 * loc + 9
StateBlocks(loc) ==
    {EndlessLoop(<<first>>, loc) : first \in FirstStatements(10 * loc + 1)}
    \cup {WhileLoop(cond, <<first>>, loc) :
             cond \in StateConditions(loc), first \in FirstStatements(10 * loc + 1)}
    \cup {Conditional(cond, <<first>>, paths, alternate, loc) :
             cond \in StateConditions(10 * loc + 1),
             first \in FirstStatements(10 * (10 * loc + 1) + 1),
             paths \in {<<>>}
                       \cup {<<[condition |-> cond2, body |-> <<second>>]>> :
                                cond2 \in StateConditions(10 * loc + 2),
                                second \in FirstStatements(10 * (10 * loc + 2) + 1)},
             alternate \in {NoAlternate}
                           \cup {Alternate(<<last>>) :
                                    last \in FirstStatements(10 * (10 * loc + 9) + 1)}}

\* var x; a statement that leaves A tracked or not; a block
StatePrograms ==
    {<<VarDeclaration("x", 1), before, block>> :
        before \in {Pass(2), NumericLiteral(1, 2), Identifier("x", 2)},
        block \in StateBlocks(3)}

StateInit ==
    /\ CompileInit(StatePrograms)
    /\ PageIdle
    /\ machine = MachineOff
    /\ parser = ParserIdle
    /\ server = ServerIdle

StateNext == EvalStatement \/ Return

SpecState == StateInit /\ [][StateNext]_vars

----------------------------------------------------------------------------
(* The register file on its own (specification SpecAlloc): insert_var,    *)
(* insert_temp_var, cleanup_temp_var, push_scope and pop_scope called one  *)
(* at a time, in the orders in which statements call them.  `line` counts  *)
(* the calls and `outcomes` holds the last call and what it returned.      *)

MaxOps == 7
MaxDepth == 3

\* the names that are declared
AllocNames == {"x", "y", "z"}

AllocInit ==
    /\ CompileIdle
    /\ PageIdle
    /\ machine = MachineOff
    /\ parser = ParserIdle
    /\ server = ServerIdle

\* what a call returned: val is the slot
Called(op, symbol, r) ==
    <<[op |-> op, symbol |-> symbol, ok |-> r.ok, val |-> r.val]>>

InsertVar ==
    /\ line < MaxOps
    /\ \E symbol \in AllocNames :
          \E r \in {insert_var(compiler, symbol, NoLoc)} :
             /\ compiler' = r.c
             /\ outcomes' = Called("insert_var", symbol, r)
    /\ line' = line + 1
    /\ UNCHANGED <<body, errors, result, pageVars, machine, parser, server>>

\* the slots that are occupied and bound to no name: temporaries
TempSlots(c) ==
    {i \in DOMAIN c.variables : c.variables[i]}
        \ UNION {Range(c.scopes[d].variables) : d \in 1..Len(c.scopes)}

InsertTempVar ==
    /\ line < MaxOps
    /\ TempSlots(compiler) = {}
    /\ \E r \in {insert_temp_var(compiler, NoLoc)} :
          /\ compiler' = r.c
          /\ outcomes' = Called("insert_temp_var", "", r)
    /\ line' = line + 1
    /\ UNCHANGED <<body, errors, result, pageVars, machine, parser, server>>

CleanupTempVar ==
    /\ line < MaxOps
    /\ \E index \in TempSlots(compiler) :
          /\ compiler' = cleanup_temp_var(compiler, index)
          /\ outcomes' = Called("cleanup_temp_var", "", OkV(compiler, index))
    /\ line' = line + 1
    /\ UNCHANGED <<body, errors, result, pageVars, machine, parser, server>>

\* push_scope up to the evaluation of the first statement of the body
PushScope ==
    /\ line < MaxOps
    /\ Len(compiler.scopes) < MaxDepth
    /\ \E r \in {push_scope(compiler, <<>>, DefaultState)} :
          /\ compiler' = r.c
          /\ outcomes' = Called("push_scope", "", r)
    /\ line' = line + 1
    /\ UNCHANGED <<body, errors, result, pageVars, machine, parser, server>>

PopScope ==
    /\ line < MaxOps
    /\ Len(compiler.scopes) > 1
    /\ compiler' = pop_scope(compiler)
    /\ outcomes' = Called("pop_scope", "", Ok(compiler))
    /\ line' = line + 1
    /\ UNCHANGED <<body, errors, result, pageVars, machine, parser, server>>

AllocNext == InsertVar \/ InsertTempVar \/ CleanupTempVar \/ PushScope \/ PopScope

SpecAlloc == AllocInit /\ [][AllocNext]_vars

----------------------------------------------------------------------------
(* Programs whose emitted code is run to its end (specification SpecExec): *)
(* x and y are assigned known values, then one statement works on them.    *)

\* what x and y hold once the two assignments have run
XValue == 5
YValue == 2

\* var x; var y; x = 5; y = 2; last, the i-th statement located at i
ExecProgram(last) ==
    << VarDeclaration("x", 1),
       VarDeclaration("y", 2),
       Assignment("x", NumericLiteral(XValue, 3), 3),
       Assignment("y", NumericLiteral(YValue, 4), 4),
       last >>

\* the right-hand sides of a compound assignment located at loc
IAssignValues(loc) ==
    {NumericLiteral(2, loc), NumericLiteral(5, loc), Identifier("y", loc),
     Identifier("x", loc),
     BinaryExpr(Identifier("y", loc), NumericLiteral(1, loc), "Plus", loc)}

\* ... x op= v, and the assignment ... x = x op v it is compared with
IAssignPrograms ==
    {ExecProgram(IAssignment("x", v, op, 5)) : v \in IAssignValues(5), op \in Operators}

PlainAssignPrograms ==
    {ExecProgram(Assignment("x", BinaryExpr(Identifier("x", 5), v, op, 5), 5)) :
        v \in IAssignValues(5), op \in Operators}


\* the operands of a comparison: literals and identifiers, which put_ab
\* loads into either register, and a sum and assignments to z, which it
\* evaluates
CmpOperands(loc) ==
    {NumericLiteral(0, loc), NumericLiteral(1, loc),
     Identifier("x", loc), Identifier("y", loc),
     BinaryExpr(Identifier("x", loc), NumericLiteral(1, loc), "Plus", loc),
     Assignment("z", NumericLiteral(1, loc), loc),
     Assignment("z", BinaryExpr(Identifier("x", loc), NumericLiteral(1, loc), "Plus", loc), loc)}

EqOperators ==
    {"EqualTo", "NotEqualTo", "GreaterThan", "LessThan", "GreaterOrEqual", "LessOrEqual"}

\* var x; var y; var z; a statement that leaves A tracked or not; then
\* if l op r debug end
CmpProgram(before, l, r, op) ==
    << VarDeclaration("x", 1), VarDeclaration("y", 2), VarDeclaration("z", 3), before,
       Conditional(EqExpr(l, r, op, 5), <<Debug(51)>>, <<>>, NoAlternate, 5) >>

CmpPrograms ==
    {CmpProgram(before, l, r, op) :
        before \in {Pass(4), Identifier("y", 4), NumericLiteral(1, 4)},
        l \in CmpOperands(5), r \in CmpOperands(5), op \in EqOperators}

\* var x; var y; var z; a statement that leaves A tracked or not; then
\* the expression statement l op r
BinProgram(before, l, r, op) ==
    << VarDeclaration("x", 1), VarDeclaration("y", 2), VarDeclaration("z", 3), before,
       BinaryExpr(l, r, op, 5) >>

BinPrograms ==
    {BinProgram(before, l, r, op) :
        before \in {Pass(4), Identifier("y", 4), NumericLiteral(1, 4)},
        l \in CmpOperands(5), r \in CmpOperands(5), op \in Operators}

ExecPrograms == IAssignPrograms \cup PlainAssignPrograms \cup CmpPrograms \cup BinPrograms

ExecInit ==
    /\ CompileInit(ExecPrograms)
    /\ PageIdle
    /\ machine = MachineOff
    /\ parser = ParserIdle
    /\ server = ServerIdle

ExecNext == EvalStatement \/ Return \/ Boot \/ Step

SpecExec == ExecInit /\ [][ExecNext]_vars

----------------------------------------------------------------------------
(* Programs that assign x and then read it (specification SpecRead): as in *)
(* SpecExec the emitted code is run.  x takes slot 0 and y slot 1.         *)

\* the value of the inline constant named x
InlineX == 3

\* the expressions that read x, located at loc: x alone goes through
\* put_into_a, the operands of a sum or difference through put_ab
ReadExprs(loc) ==
    {Identifier("x", loc),
     BinaryExpr(Identifier("x", loc), NumericLiteral(1, loc), "Plus", loc),
     BinaryExpr(NumericLiteral(1, loc), Identifier("x", loc), "Minus", loc),
     BinaryExpr(Identifier("x", loc), NumericLiteral(1, loc), "Minus", loc),
     BinaryExpr(Identifier("x", loc), Identifier("x", loc), "Mult", loc)}

\* x = v; between; y = read
AssignThenRead(v, between, read, loc) ==
    <<Assignment("x", NumericLiteral(v, loc), loc)>> \o between
        \o <<Assignment("y", read, loc + 2)>>

\* the statements between the assignment and the read: they leave A
\* tracking x, or a number
Between(loc) == {<<>>, <<NumericLiteral(1, loc)>>}

\* x = v; y = read
PlainReadPrograms ==
    {AssignThenRead(v, between, read, 1) :
        v \in {InlineX, XValue}, between \in Between(2), read \in ReadExprs(3)}

\* inline x = 3; x = v; y = read
InlineReadPrograms ==
    {<<InlineDeclaration("x", NumericLiteral(InlineX, 1), 1)>>
         \o AssignThenRead(v, between, read, 2) :
        v \in {InlineX, XValue}, between \in Between(3), read \in ReadExprs(4)}

\* inline x = 3; if 0 == 0 x = v; y = read end
OuterInlineReadPrograms ==
    {<<InlineDeclaration("x", NumericLiteral(InlineX, 1), 1),
       Conditional(Eq(NumericLiteral(0, 21), NumericLiteral(0, 21), 21),
                   AssignThenRead(v, between, read, 211), <<>>, NoAlternate, 2)>> :
        v \in {InlineX, XValue}, between \in Between(212), read \in ReadExprs(213)}

ReadPrograms == PlainReadPrograms \cup InlineReadPrograms \cup OuterInlineReadPrograms

ReadInit ==
    /\ CompileInit(ReadPrograms)
    /\ PageIdle
    /\ machine = MachineOff
    /\ parser = ParserIdle
    /\ server = ServerIdle

ReadNext == EvalStatement \/ Return \/ Boot \/ Step

SpecRead == ReadInit /\ [][ReadNext]_vars

----------------------------------------------------------------------------
(* Programs and vectors around the byte limit (specification SpecLong):    *)
(* programs that emit about U8 instructions before a loop, programs that   *)
(* allocate more than U8 marks, and the page pass on vectors longer than   *)
(* U8.  u8 additions wrap in a release build and abort in a debug build;   *)
(* the definitions above wrap, the two Overflow actions are the abort.     *)

\* x = 1, n times, the i-th located at i: LAL 1 once and SVA 0 each time
Stores(n) == [i \in 1..n |-> Assignment("x", NumericLiteral(1, i), i)]

\* forever pass end, n times: one mark and one JMP each
Loops(n) == [i \in 1..n |-> EndlessLoop(<<Pass(10 * i + 1)>>, i)]

\* the numbers of instructions emitted before the loop: U8 - 2 .. U8 + 1
LongLens == (U8 - 2)..(U8 + 1)

\* x = 1 ... x = 1; forever pass end
LongPrograms ==
    {Stores(n - 1) \o <<EndlessLoop(<<Pass(10 * n + 1)>>, n)>> : n \in LongLens}

\* one loop more than there are byte values, and a read of an undeclared
\* name: generate_assembly returns that error, and the page pass, which
\* this specification runs on vectors of its own, is not run on U8 + 1 jumps
MarkPrograms == {Loops(U8 + 1) \o <<Identifier("y", U8 + 2)>>}

\* a vector of U8 + 2 instructions with one JMP at or after index U8 - 1,
\* whose mark is a byte
LongPageInit ==
    /\ CompileIdle
    /\ \E p1 \in (U8 - 1)..(U8 + 1) :
          instructions = PageVector(U8 + 2, (p1 :> [variant |-> "JMP", arg |-> 0]))
    /\ jump_marks \in [{0} -> {0, 1, PAGE_SIZE, U8 - 2, U8 - 1}]
    /\ pass = 1
    /\ changes = FALSE
    /\ cursor = 0
    /\ inserted = <<>>
    /\ pagePhase = "scan"

LongInit ==
    /\ \/ CompileInit(LongPrograms \cup MarkPrograms) /\ PageIdle
       \/ LongPageInit
    /\ machine = MachineOff
    /\ parser = ParserIdle
    /\ server = ServerIdle

RECURSIVE CodeCount(_)
\* the number of Code instructions of a tree, as a natural number
CodeCount(scope) ==
    IF scope = <<>> THEN 0
    ELSE IF Len(scope) = 1
    THEN (IF scope[1].k = "Code" THEN 1 ELSE CodeCount(scope[1].s))
    ELSE CodeCount(SubSeq(scope, 1, Len(scope) \div 2))
            + CodeCount(SubSeq(scope, Len(scope) \div 2 + 1, Len(scope)))

\* debug build: the u8 sum of scope_len overflows when the statement that
\* calls it follows U8 or more instructions
ScopeLenOverflow ==
    /\ result.tag = "Pending"
    /\ compiler.panicked = ""
    /\ has_next(body, line, errors)
    /\ body[line + 1].typ \in {"EndlessLoop", "WhileLoop", "Conditional"}
    /\ CodeCount(compiler.scopes[1].instructions) >= U8
    /\ compiler' = [compiler EXCEPT !.panicked = "attempt to add with overflow"]
    /\ UNCHANGED <<body, line, errors, outcomes, result, pageVars, machine, parser, server>>

\* debug build: `*value += by` overflows on a mark that holds U8 - 1
MoveOverflow ==
    /\ pagePhase = "scan"
    /\ LET j == NextCrossing(instructions, jump_marks, cursor)
       IN /\ j < Len(instructions)
          /\ \E k \in DOMAIN jump_marks :
                jump_marks[k] >= j % U8 /\ jump_marks[k] = U8 - 1
    /\ pagePhase' = "attempt to add with overflow"
    /\ UNCHANGED <<instructions, jump_marks, pass, changes, cursor, inserted,
                   compileVars, machine, parser, server>>

LongNext ==
    \/ EvalStatement \/ Return \/ ScopeLenOverflow
    \/ Convert \/ NextPass \/ Resolve \/ MoveOverflow

SpecLong == LongInit /\ [][LongNext]_vars

----------------------------------------------------------------------------
(* Document changes delivered to the language server (specification        *)
(* SpecLsp): any texts with any versions, in any order.                    *)

MaxReloads == 3
MaxVersion == 2

\* i32 versions around the initial last_document_version
Versions == (0 - 2)..MaxVersion

Texts == {"a", "b", "c"}

LspInit ==
    /\ CompileIdle
    /\ PageIdle
    /\ machine = MachineOff
    /\ parser = ParserIdle
    /\ server = new_server

ReloadDocument ==
    /\ Len(server.delivered) < MaxReloads
    /\ \E text \in Texts, version \in Versions :
          server' = reload_document(server, text, version)
    /\ UNCHANGED <<compileVars, pageVars, machine, parser>>

LspNext == ReloadDocument

SpecLsp == LspInit /\ [][LspNext]_vars

----------------------------------------------------------------------------
(* Token lists handed to produce_ast (specification SpecParse).  The lexer  *)
(* is outside the sources at hand: a token list is drawn directly, every    *)
(* list ending with its single Eof token, the i-th token spanning <<i, i>>. *)

MaxTokens == 4

W(typ) == Token(typ, <<0, 0>>)
Wx == IdentifierToken("x", <<0, 0>>)
Wa == IdentifierToken("a", <<0, 0>>)
Wf == IdentifierToken("f", <<0, 0>>)
W1 == NumberToken(1, <<0, 0>>)
WPlus == BinaryOperatorToken("Plus", <<0, 0>>)
WMult == BinaryOperatorToken("Mult", <<0, 0>>)
WEq == EqOperatorToken("EqualTo", <<0, 0>>)
WIPlus == IOperatorToken("Plus", <<0, 0>>)

\* the words every short list is made of
Words == {W("If"), W("Else"), W("End"), W("Forever"), W("Pass"), Wx}

RECURSIVE WordLists(_)
WordLists(n) ==
    IF n = 0 THEN {<<>>}
    ELSE {Append(l, w) : l \in WordLists(n - 1), w \in Words}

ShortLists == UNION {WordLists(n) : n \in 0..MaxTokens}

\* statements the parser accepts
GoodStatements ==
    {<<W("Pass")>>,
     <<W("Var"), Wx>>,
     <<W("Inline"), Wx, W("Equals"), W1>>,
     <<Wx, W("Equals"), W1, WPlus, W1, WMult, Wx>>,
     <<Wx, WIPlus, W1>>,
     <<W("Use"), Wa, W("Dot"), Wf>>,
     <<Wa, W("Dot"), Wf, W("OpenFuncParen"), Wx, W("Comma"), W1, W("CloseParen")>>,
     <<W("OpenParen"), Wx, W("CloseParen")>>,
     <<W("Debug")>>,
     <<W("If"), Wx, WEq, W1, W("Pass"), W("End")>>,
     <<W("If"), Wx, W("Pass"), W("Elif"), Wx, W("Pass"), W("Else"), W("Pass"), W("End")>>,
     <<W("Forever"), W("Pass"), W("End")>>,
     <<W("While"), Wx, W("Pass"), W("End")>>}

\* statements the parser rejects wherever they stand
BadStatements ==
    {<<W("Var"), W1>>,
     <<W("Inline"), W1>>,
     <<W("Inline"), Wx, W1>>,
     <<W1, W("Equals"), Wx>>,
     <<W1, WIPlus, Wx>>,
     <<W("Use"), W1>>,
     <<Wx, W("Dot"), W1>>,
     <<Wa, W("Dot"), Wf, W("OpenFuncParen"), Wx>>,
     <<Wa, W("Dot"), Wf, W("OpenFuncParen"), W("CloseParen"),
       W("OpenFuncParen"), W("CloseParen")>>,
     <<W("OpenParen"), Wx>>,
     <<W("End")>>,
     <<W("If"), Wx, W("End")>>,
     <<W("Forever"), W("End")>>,
     <<W("While"), Wx, W("End")>>,
     <<W("If"), Wx, W("Pass"), W("Else"), W("End")>>}

\* blocks whose `end` is missing
OpenStatements ==
    {<<W("Forever"), W("Pass")>>,
     <<W("While"), Wx, W("Pass")>>,
     <<W("If"), Wx, W("Pass")>>,
     <<W("If"), Wx, WEq, W1, W("Pass")>>,
     <<W("If"), Wx, W("Pass"), W("Elif"), Wx, W("Pass")>>,
     <<W("If"), Wx, W("Pass"), W("Else"), W("Pass")>>}

StatementLists ==
    {first \o second : first \in GoodStatements \cup BadStatements,
                       second \in GoodStatements \cup BadStatements \cup OpenStatements}

\* the tokens of a word list: each word at its place, then Eof
Located(words) ==
    [i \in 1..(Len(words) + 1) |->
        IF i > Len(words) THEN Token("Eof", TokenRange(i))
        ELSE [words[i] EXCEPT !.location = TokenRange(i)]]

\* x op 1 for each binary operator, alone and followed by a statement
BinaryStatements ==
    {<<Wx, BinaryOperatorToken(op, <<0, 0>>), W1>> \o rest :
        op \in Operators, rest \in {<<>>, <<W("Pass")>>}}

TokenLists ==
    {Located(words) :
        words \in ShortLists \cup OpenStatements \cup StatementLists \cup BinaryStatements}

\* a new parser, before produce_ast is called
ParseInit ==
    /\ parser = new_parser
    /\ server = ServerIdle
    /\ body = <<>>
    /\ line = 0
    /\ compiler = new
    /\ errors = <<>>
    /\ outcomes = <<>>
    /\ result = Pending
    /\ PageIdle
    /\ machine = MachineOff

\* produce_ast is called and takes its argument; body and errors are its
\* two vectors, both empty
ProduceAst ==
    /\ parser.source = <<>>
    /\ \E tokens \in TokenLists : parser' = with_tokens(tokens)
    /\ UNCHANGED <<compileVars, pageVars, machine, server>>

\* one iteration of produce_ast's loop; a panic leaves the loop for good
ParseStatement ==
    /\ parser.source # <<>>
    /\ result.tag = "Pending"
    /\ parser.panicked = ""
    /\ more_statements(parser)
    /\ \E r \in {parse_statement(parser)} :
          /\ parser' = r.p
          /\ body' = IF r.ok THEN Append(body, r.val) ELSE body
          /\ errors' = IF r.p.panicked # "" THEN errors ELSE collect(errors, r)
          /\ outcomes' = Append(outcomes, [ok |-> r.ok, typ |-> r.typ,
                                            location |-> r.location])
    /\ line' = line + 1
    /\ UNCHANGED <<compiler, result, pageVars, machine, server>>

\* the loop is over: Err(errors) or Ok(body)
ParseReturn ==
    /\ parser.source # <<>>
    /\ result.tag = "Pending"
    /\ parser.panicked = ""
    /\ ~more_statements(parser)
    /\ result' = produce_ast_return(errors)
    /\ UNCHANGED <<body, line, compiler, errors, outcomes, pageVars, machine, parser, server>>

ParseNext == ProduceAst \/ ParseStatement \/ ParseReturn

SpecParse == ParseInit /\ [][ParseNext]_vars

\* produce_ast runs on one thread and nothing suspends it: its loop keeps
\* taking steps while one is possible
SpecParseLive == SpecParse /\ WF_vars(ParseNext)

----------------------------------------------------------------------------
(* Properties of the compilation (specification Spec) *)

Finished == result.tag # "Pending"

\* the emitted code before the page pass and before marks are resolved
Flat(c) == flatten_scope(<<ScopeInstr(c.scopes[1].instructions)>>)

JumpsOf(instrs) == {i \in 1..Len(instrs) : is_jump(instrs[i].variant)}

BoundSlots(c) == UNION {Range(c.scopes[d].variables) : d \in 1..Len(c.scopes)}

HasInnerScope(scope) == \E i \in 1..Len(scope) : scope[i].k = "Scope"

\* C4 as stated: after a successful compilation every jump names a mark
\* of jump_marks and its resolved arg is an index in [0, len).
C4_JumpTargetsBelowLen ==
    result.tag = "Ok" =>
        /\ \A i \in JumpsOf(Flat(compiler)) :
               Flat(compiler)[i].arg \in DOMAIN compiler.jump_marks
        /\ \A i \in JumpsOf(result.instructions) :
               result.instructions[i].arg \in 0..(Len(result.instructions) - 1)

\* C4 (amended): after a successful compilation every jump names a mark of
\* jump_marks and its resolved arg lies in [0, len], len being the target
\* of a jump over the last statement of the program.
C4_JumpTargetsUpToLen ==
    result.tag = "Ok" =>
        /\ \A i \in JumpsOf(Flat(compiler)) :
               Flat(compiler)[i].arg \in DOMAIN compiler.jump_marks
        /\ \A i \in JumpsOf(result.instructions) :
               result.instructions[i].arg \in 0..Len(result.instructions)

C4_Witness ==
    /\ result.tag = "Ok"
    /\ body[Len(body)].typ \in {"WhileLoop", "Conditional"}
    /\ \E i \in JumpsOf(result.instructions) :
           result.instructions[i].arg = Len(result.instructions)
    /\ \E i \in JumpsOf(result.instructions) :
           result.instructions[i].arg < Len(result.instructions)

\* C5: when the statement loop of a successful compilation has finished,
\* the number of occupied slots equals the number of names bound in the
\* global scope.
C5_SlotsConserved ==
    (line = Len(body) /\ errors = <<>>) =>
        Count(compiler.variables) = Cardinality(DOMAIN compiler.scopes[1].variables)

\* a successful compilation in which a slot was bound inside a popped scope
C5_Witness ==
    /\ line = Len(body) /\ errors = <<>>
    /\ Count(compiler.variables) >= 1
    /\ \E i \in 1..Len(compiler.scopes[1].instructions) :
          LET n == compiler.scopes[1].instructions[i]
          IN /\ n.k = "Scope"
             /\ \E j \in 1..Len(n.s) :
                   /\ n.s[j].k = "Code"
                   /\ n.s[j].i.variant = "SVA"
                   /\ ~compiler.variables[n.s[j].i.arg]

\* C6: between statements (no expression evaluation is in progress),
\* variables[i] is true if and only if slot i is bound to a name in some
\* scope on the stack.
C6_BitmapMatchesBindings ==
    \A i \in DOMAIN compiler.variables :
        compiler.variables[i] <=> i \in BoundSlots(compiler)

\* C7: the scope stack is never empty, its bottom element is the scope
\* created by Compiler::new, and pop_scope never runs on a one-element stack.
C7_ScopeStackNonEmpty ==
    /\ Len(compiler.scopes) >= 1
    /\ compiler.scopes[1].root
    /\ \A d \in 2..Len(compiler.scopes) : ~compiler.scopes[d].root
    /\ compiler.panicked # "pop_scope"

\* a statement failed inside a body (its scope stayed on the stack) and a
\* later statement pushed and popped a scope on top of it
C7_Witness ==
    /\ errors # <<>>
    /\ Len(compiler.scopes) >= 2
    /\ HasInnerScope(last_scope(compiler).instructions)

Failures(outs) == SelectSeq(outs, LAMBDA o : ~o.ok)

\* C9: generate_assembly evaluates every statement, returns the errors of
\* all failing statements in statement order, and returns instructions
\* only when no statement failed.
C9_AllErrorsNoPartialOutput ==
    Finished =>
        /\ compiler.panicked = ""
        /\ Len(outcomes) = Len(body)
        /\ result.errors =
               [i \in 1..Len(Failures(outcomes)) |->
                   [typ |-> Failures(outcomes)[i].typ,
                    location |-> Failures(outcomes)[i].location]]
        /\ \A i, j \in 1..Len(result.errors) :
               i < j => result.errors[i].location < result.errors[j].location
        /\ (result.tag = "Err") <=> (Failures(outcomes) # <<>>)
        /\ (result.tag = "Err") => result.instructions = <<>>
        /\ (result.tag = "Ok") => result.instructions = get_instructions(compiler)

\* two statements failed with a successful one between them
C9_Witness ==
    /\ result.tag = "Err"
    /\ Len(outcomes) = 3
    /\ ~outcomes[1].ok /\ outcomes[2].ok /\ ~outcomes[3].ok
    /\ Len(result.errors) = 2

----------------------------------------------------------------------------
(* Properties of the page pass (specification SpecPage) *)

PlainJumpsOf(instrs) ==
    {i \in 1..Len(instrs) :
        is_jump(instrs[i].variant) /\ ~disc_jump(instrs[i].variant)}

\* C2: in the stream get_instructions returns, every plain jump at index i
\* with resolved target t has floor(t/64) = floor(i/64).
C2_PageInvariant ==
    pagePhase = "done" =>
        \A i \in PlainJumpsOf(instructions) :
            instructions[i].arg \div PAGE_SIZE = (i - 1) \div PAGE_SIZE

\* the pass converted a jump and left another one plain
C2_Witness ==
    /\ pagePhase = "done"
    /\ inserted # <<>>
    /\ PlainJumpsOf(instructions) # {}

\* C3: in the final stream every LCL p is immediately followed by a
\* discontinuous jump whose resolved target t has floor(t/64) = p.
C3_LclNamesTargetPage ==
    pagePhase = "done" =>
        \A i \in 1..Len(instructions) :
            instructions[i].variant = "LCL" =>
                /\ i < Len(instructions)
                /\ disc_jump(instructions[i + 1].variant)
                /\ instructions[i + 1].arg \div PAGE_SIZE = instructions[i].arg

\* C10: the result of a conversion (the LCL insertion with move_jump_marks)
\* is the same whatever order the jump_marks map is iterated in: it is the
\* result of iterating the keys in ascending order; resolving the marks is
\* a function of the vector and the table.
C10_IterationOrderIrrelevant ==
    [][/\ (pagePhase = "scan" /\ Len(instructions') = Len(instructions) + 1) =>
            LET j == NextCrossing(instructions, jump_marks, cursor)
                st == ConvertAt(instructions, jump_marks, j,
                                AscendingKeys(DOMAIN jump_marks))
            IN /\ instructions' = st.instructions
               /\ jump_marks' = st.jump_marks
       /\ (pagePhase = "scan" /\ pagePhase' = "done") =>
            instructions' = replace_jump_marks(instructions, jump_marks)]_vars

\* an insertion moved one of two marks and left the other in place
C10_Witness ==
    /\ Len(inserted) = 1
    /\ DOMAIN jump_marks = {0, 1}
    /\ \E k \in {0, 1} : jump_marks[k] > inserted[1].at /\ jump_marks[1 - k] < inserted[1].at

\* C22: in the final stream no jump's resolved target is the index of a
\* discontinuous jump: a mark that designated a jump before its conversion
\* designates the LCL in front of it afterwards.
C22_NoJumpIntoDiscJump ==
    pagePhase = "done" =>
        \A i \in JumpsOf(instructions) :
            instructions[i].arg < Len(instructions) =>
                ~disc_jump(At(instructions, instructions[i].arg).variant)

\* every insertion turns one plain jump into a discontinuous one
InsertionConverts ==
    Len(instructions') > Len(instructions) =>
        /\ Cardinality(PlainJumpsOf(instructions')) =
              Cardinality(PlainJumpsOf(instructions)) - 1
        /\ Cardinality(JumpsOf(instructions')) = Cardinality(JumpsOf(instructions))

\* C27: insert_disc_jumps terminates: it reaches a pass without changes
\* after at most (number of plain jumps in the input + 1) passes, because
\* every change converts one plain jump into a discontinuous jump and
\* discontinuous jumps are never converted back.
C27_PagePassTerminates ==
    /\ [](pass <= Cardinality(JumpsOf(instructions)) + 1)
    /\ [][InsertionConverts]_vars
    /\ <>(pagePhase = "done")

\* both jumps were converted, in two passes, and the third pass ended it
C27_Witness ==
    /\ pagePhase = "done"
    /\ pass = 3
    /\ Cardinality(JumpsOf(instructions)) = 2
    /\ PlainJumpsOf(instructions) = {}

\* the indices of the plain jumps whose target page is not their own
Crossing(instrs, marks) ==
    {j - 1 : j \in {i \in PlainJumpsOf(instrs) : CrossesPage(instrs, marks, i - 1)}}

\* where the instruction at index k is after an insertion at index j
Shifted(k, j) == IF k >= j THEN k + 1 ELSE k

\* the index of the LCL that the step inserts
InsertedAt == inserted'[Len(inserted')].at

----------------------------------------------------------------------------
(* Properties of the emitted code when it runs (specification SpecRun) *)

\* whether a register holding `value` is what `contents` says it holds
Holds(contents, value, mem) ==
    CASE contents.k = "Number" -> value = contents.v
      [] contents.k = "Variable" -> value = mem[contents.v]
      [] OTHER -> TRUE

\* C1: whenever the machine is about to execute an instruction, the state
\* the compiler tracked when it emitted that instruction is true of the
\* machine: a register tracked as Number(v) holds v, one tracked as
\* Variable(s) holds the content of slot s.
C1_TrackedStateSound ==
    (machine.on /\ machine.pc < Len(result.instructions)) =>
        LET tracked == At(result.instructions, machine.pc).tracked
        IN /\ Holds(tracked.a, machine.a, machine.mem)
           /\ Holds(tracked.b, machine.b, machine.mem)

----------------------------------------------------------------------------
(* Properties of slot allocation (specification SpecSlots) *)

SameBindings(c1, c2) ==
    /\ Len(c1.scopes) = Len(c2.scopes)
    /\ \A d \in 1..Len(c1.scopes) : c1.scopes[d].variables = c2.scopes[d].variables

\* the result r of an allocation attempted in compiler state c
AllocationFits(c, r) ==
    IF FreeSlots(c) # {}
    THEN /\ r.ok
         /\ Count(r.c.variables) = Count(c.variables) + 1
    ELSE /\ ~r.ok
         /\ r.typ = "TooManyVars"
         /\ r.c.variables = c.variables
         /\ SameBindings(r.c, c)

\* C8: at most 32 slots are occupied; in every compiler state insert_var of
\* a new name and insert_temp_var succeed if a slot is free and fail with
\* TooManyVars if all 32 are occupied, leaving the bitmap and every scope's
\* variable map as they were; a statement fails with TooManyVars only when
\* the bitmap is full.
C8_SlotExhaustion ==
    /\ Count(compiler.variables) <= VAR_SLOTS
    /\ AllocationFits(compiler, insert_var(compiler, "fresh", NoLoc))
    /\ AllocationFits(compiler, insert_temp_var(compiler, NoLoc))
    /\ \A i \in 1..Len(outcomes) :
           outcomes[i].typ = "TooManyVars" =>
               Count(compiler.variables) = VAR_SLOTS

\* the 33rd declaration failed and then a temporary could not be had
C8_Witness ==
    /\ Count(compiler.variables) = VAR_SLOTS
    /\ \E i, j \in 1..Len(outcomes) :
          /\ outcomes[i].typ = "TooManyVars" /\ body[i].typ = "VarDeclaration"
          /\ outcomes[j].typ = "TooManyVars" /\ body[j].typ = "BinaryExpr"

----------------------------------------------------------------------------
(* Properties of expression lowering (specification SpecExpr) *)

\* what an emitted instruction is, without the history field
Emitted(ins) == <<ins.variant, ins.arg, ins.orig_location>>

Listing(instrs) == [i \in 1..Len(instrs) |-> Emitted(instrs[i])]

IsLiteralProgram == Len(body) = 1 /\ body[1].typ = "NumericLiteral"

\* C11: a program that is the single statement NumericLiteral(v) compiles
\* to [LAL lo] when v is in 0..255 (its high byte is 0) and to
\* [LAL lo, LAH hi] otherwise, where lo + 256 * hi is v modulo 2^16 and
\* each instruction carries the literal's location.
C11_LiteralStatement ==
    (Finished /\ IsLiteralProgram) =>
        LET v == body[1].value
            out == result.instructions
            hi == IF Len(out) = 2 THEN out[2].arg ELSE 0
        IN /\ result.tag = "Ok"
           /\ Len(out) = IF v \in 0..(U8 - 1) THEN 1 ELSE 2
           /\ out[1].variant = "LAL"
           /\ out[1].arg \in 0..(U8 - 1)
           /\ Len(out) = 2 => out[2].variant = "LAH" /\ out[2].arg \in 1..(U8 - 1)
           /\ out[1].arg + U8 * hi = v % I16
           /\ \A i \in 1..Len(out) : out[i].orig_location = body[1].location

\* a negative literal whose two bytes are emitted, and NumericLiteral(5)
C11_Witness ==
    /\ result.tag = "Ok"
    /\ IsLiteralProgram
    /\ \/ /\ body[1].value = 0 - 2
          /\ Listing(result.instructions) = <<<<"LAL", 254, 1>>, <<"LAH", 255, 1>>>>
       \/ /\ body[1].value = 5
          /\ Listing(result.instructions) = <<<<"LAL", 5, 1>>>>

IsSumProgram ==
    /\ Len(body) = 5
    /\ body[5].typ = "Assignment"
    /\ body[5].value.typ = "BinaryExpr"
    /\ body = SumProgram(body[5].value.left.symbol, body[5].value.right.symbol,
                         body[5].value.operator)

\* the slot of a name when names get slots in declaration order from 0
DeclaredSlot(name) == IF name = "a" THEN 0 ELSE 1

AllCode(c) ==
    UNION {{flatten_scope(c.scopes[d].instructions)[i] :
               i \in 1..Len(flatten_scope(c.scopes[d].instructions))} :
           d \in 1..Len(c.scopes)}

\* the inline names visible in the innermost scope
InlineNames(c) == UNION {DOMAIN c.scopes[d].inline_variables : d \in 1..Len(c.scopes)}

RECURSIVE Folds(_, _)
\* literals, inline names and binary expressions of them
Folds(e, names) ==
    CASE e.typ = "NumericLiteral" -> TRUE
      [] e.typ = "Identifier" -> e.symbol \in names
      [] e.typ = "BinaryExpr" -> Folds(e.left, names) /\ Folds(e.right, names)
      [] OTHER -> FALSE

RECURSIVE ExactValue(_, _)
\* the value of a folding expression over the integers
ExactValue(e, c) ==
    CASE e.typ = "NumericLiteral" -> e.value
      [] e.typ = "Identifier" ->
           c.scopes[InnermostWith(c, "inline_variables", e.symbol)]
               .inline_variables[e.symbol]
      [] e.typ = "BinaryExpr" ->
           LET l == ExactValue(e.left, c)
               r == ExactValue(e.right, c)
           IN CASE e.operator = "Plus" -> l + r
                [] e.operator = "Minus" -> l - r
                [] e.operator = "Mult" -> l * r
                [] OTHER -> WrapI16(BitOp(e.operator, l % I16, r % I16, 16))

\* the number load of v into A from an unknown A, located at loc
NumberLoad(v, loc) ==
    IF (v % I16) \div U8 = 0 THEN << <<"LAL", v % U8, loc>> >>
    ELSE << <<"LAL", v % U8, loc>>, <<"LAH", (v % I16) \div U8, loc>> >>

IsInlineProgram ==
    /\ Len(body) >= 3
    /\ body[Len(body) - 2].typ = "InlineDeclaration"
    /\ body[Len(body)].typ = "Assignment"

\* C13: a top-level `inline x = e` whose folding stays within the i16 range
\* (the programs of InlinePrograms) emits no instruction; when e folds it
\* binds x to the folded value in the innermost scope and nothing else
\* changes, otherwise the statement fails with ForbiddenInline and binds
\* nothing; a later read of x is a number load of the value (inline x = e;
\* var y; y = x gives the load and SVA of y's slot), and a name bound inside
\* a loop body is unbound after the loop.
C13_InlineDeclaration ==
    [][/\ (line' = line + 1 /\ body \in InlinePrograms
           /\ body[line'].typ = "InlineDeclaration") =>
            LET st == body[line']
                top == Len(compiler.scopes)
            IN /\ AllCode(compiler') = AllCode(compiler)
               /\ IF Folds(st.value, InlineNames(compiler))
                  THEN /\ outcomes'[line'].ok
                       /\ compiler' =
                             [compiler EXCEPT !.scopes[top].inline_variables =
                                 MapPut(@, st.ident, ExactValue(st.value, compiler))]
                  ELSE /\ outcomes'[line'].typ = "ForbiddenInline"
                       /\ compiler' = compiler
       /\ (result' # result /\ IsInlineProgram /\ errors = <<>>) =>
            LET n == Len(body)
                slot == Cardinality({i \in 1..n : body[i].typ = "VarDeclaration"}) - 1
            IN Listing(result'.instructions) =
                   NumberLoad(compiler.scopes[1].inline_variables["x"], n)
                   \o << <<"SVA", slot, n>> >>
       /\ (result' # result /\ body = ScopedInlineProgram) =>
            /\ result'.errors = <<[typ |-> "NonexistentVar", location |-> 3]>>
            /\ \E ins \in AllCode(compiler) : Emitted(ins) = <<"LAL", 4, 2>>
            /\ InlineNames(compiler) = {}]_vars

\* inline x = 2 + 3; var y; y = x has compiled to LAL 5, SVA 0
C13_Witness ==
    /\ body = InlineProgram(<<>>, BinaryExpr(NumericLiteral(2, 1), NumericLiteral(3, 1),
                                             "Plus", 1))
    /\ result.tag = "Ok"
    /\ Listing(result.instructions) = << <<"LAL", 5, 3>>, <<"SVA", 0, 3>> >>
    /\ compiler.scopes[1].inline_variables = ("x" :> 5)

IsFoldProgram == body \in FoldPrograms

\* C14: try_eval_const of `a op b` with i16 operands and op in {+, -, *}
\* never aborts and returns the signed 16-bit value congruent to the exact
\* result modulo 2^16, also when the exact result is outside the range.
C14_FoldWraps ==
    (IsFoldProgram /\ line = 1) =>
        LET e == body[1].value
            bound == compiler.scopes[1].inline_variables
        IN /\ compiler.panicked = ""
           /\ outcomes[1].ok
           /\ "x" \in DOMAIN bound
           /\ bound["x"] \in (0 - 32768)..32767
           /\ (bound["x"] - ExactValue(e, compiler)) % I16 = 0

\* the variable names in scope
VarNames(c) == UNION {DOMAIN c.scopes[d].variables : d \in 1..Len(c.scopes)}

\* put_into_a / put_into_b of x change nothing when the register is
\* tracked to hold the slot of x, for every x of `names`
LoadsElided(c, names) ==
    \A x \in names :
        LET slot == get_var_noerror(c, x).val
            st == last_scope(c).state
        IN /\ st.a = Variable(slot) => put_into_a(c, Identifier(x, NoLoc)) = Ok(c)
           /\ st.b = Variable(slot) => put_into_b(c, Identifier(x, NoLoc)) = Ok(c)

\* put_a_number / put_b_number change nothing for the tracked number
NumberLoadsElided(c) ==
    LET st == last_scope(c).state
    IN /\ st.a.k = "Number" => put_a_number(c, st.a.v, NoLoc) = c
       /\ st.b.k = "Number" => put_b_number(c, st.b.v, NoLoc) = c

\* C15 as stated: when the innermost scope's state records A = Variable(slot
\* of x), put_into_a of identifier x emits nothing and leaves the state
\* unchanged, for every variable x; likewise put_a_number(v) when
\* A = Number(v), and the same for B.
C15_LoadsElidedForEveryVariable ==
    /\ LoadsElided(compiler, VarNames(compiler))
    /\ NumberLoadsElided(compiler)

\* C15 (amended): the same for every variable x that no inline name
\* shadows; an identifier that is also bound as an inline name is loaded as
\* its number.
C15_LoadsElided ==
    /\ LoadsElided(compiler, VarNames(compiler) \ InlineNames(compiler))
    /\ NumberLoadsElided(compiler)

\* var x; var y; x - y; x - y has compiled: the second x - y reloads A,
\* which SUB made unknown, and not B
C15_Witness ==
    /\ result.tag = "Ok"
    /\ Len(body) = 4
    /\ body[3] = BinaryExpr(Identifier("x", 3), Identifier("y", 3), "Minus", 3)
    /\ Listing(result.instructions) =
          << <<"LA", 0, 3>>, <<"LB", 1, 3>>, <<"SUB", NoArg, 3>>,
             <<"LA", 0, 4>>, <<"SUB", NoArg, 4>> >>
    /\ last_scope(compiler).state.b = Variable(1)

\* operands of a binary expression: identifiers, literals, an assignment,
\* a sum and a difference whose right operand is itself a sum
PutOperands ==
    LET x == Identifier("x", NoLoc)
        y == Identifier("y", NoLoc)
        lit(n) == NumericLiteral(n, NoLoc)
    IN { x, y, lit(5), lit(300),
         Assignment("x", lit(5), NoLoc),
         BinaryExpr(x, y, "Plus", NoLoc),
         BinaryExpr(lit(1), BinaryExpr(x, lit(1), "Plus", NoLoc), "Minus", NoLoc) }

\* the instructions the innermost scope of c2 holds beyond those of c1
NewCode(c1, c2) ==
    LET old == last_scope(c1).instructions
        now == last_scope(c2).instructions
    IN [i \in 1..(Len(now) - Len(old)) |-> now[Len(old) + i].i]

\* SVA t; LB t on a slot t that is bound to no name
HasSwitch(code, c) ==
    \E i \in 1..(Len(code) - 1) :
        /\ code[i].variant = "SVA" /\ code[i + 1].variant = "LB"
        /\ code[i].arg = code[i + 1].arg
        /\ code[i].arg \notin BoundSlots(c)

\* the compiler after the evaluation of the operand that put_ab has to
\* evaluate first, if there is one
AfterCompound(c, left, right) ==
    IF ~can_put_into_b(right) THEN eval_expr(c, right).c
    ELSE IF ~can_put_into_a(left) THEN eval_expr(c, left).c
    ELSE c

AlreadyPlaced(c, left, right) == is_in_a(c, right) \/ is_in_b(c, left)

\* C16 as stated: for every pair of operands and every tracked state,
\* what put_ab(left, right, true) emits contains no switch sequence when
\* is_in_a(right) or is_in_b(left) holds at the call.
C16_NoSwitchEmitted ==
    \A left \in PutOperands, right \in PutOperands :
        AlreadyPlaced(compiler, left, right) =>
            ~HasSwitch(NewCode(compiler, put_ab(compiler, left, right, TRUE).c),
                       compiler)

\* C16 (amended): when is_in_a(right) or is_in_b(left) holds at the call,
\* put_ab(left, right, true) emits no switch sequence of its own: what it
\* emits besides the evaluation of a compound operand (one that is neither
\* a literal nor an identifier nor an assignment of one) contains none.
C16_NoSwitchOfItsOwn ==
    \A left \in PutOperands, right \in PutOperands :
        AlreadyPlaced(compiler, left, right) =>
            ~HasSwitch(NewCode(AfterCompound(compiler, left, right),
                               put_ab(compiler, left, right, TRUE).c),
                       compiler)

\* var x; var y; y; x + y has compiled: y was in A, so x + y is emitted
\* swapped as LB 0, ADD
C16_Witness ==
    /\ result.tag = "Ok"
    /\ Len(body) = 4
    /\ body[4] = BinaryExpr(Identifier("x", 4), Identifier("y", 4), "Plus", 4)
    /\ Listing(result.instructions) =
          << <<"LA", 1, 3>>, <<"LB", 0, 4>>, <<"ADD", NoArg, 4>> >>

----------------------------------------------------------------------------
(* Properties of nested control flow (specification SpecNest) *)

\* whether location loc lies in the body of the block located at block
InBody(loc, block) ==
    \E k \in {10, 100, 1000, 10000} : loc >= k /\ loc \div k = block

\* the 0-based index of the first instruction of the body of the block
\* located at `block`, or `otherwise` when the body emitted nothing
BodyStart(instrs, block, otherwise) ==
    LET hits == {j \in 1..Len(instrs) : InBody(instrs[j].orig_location, block)}
    IN IF hits = {} THEN otherwise ELSE Min(hits) - 1

RECURSIVE LoopsIn(_)
\* the locations of the endless loops of a statement list, at any depth
LoopsIn(stmts) ==
    IF stmts = <<>> THEN {}
    ELSE (IF Head(stmts).typ = "EndlessLoop"
          THEN {Head(stmts).location} \cup LoopsIn(Head(stmts).body)
          ELSE {})
         \cup LoopsIn(Tail(stmts))

\* C17: for an EndlessLoop at any nesting depth the JMP emitted after its
\* body uses a mark id that no other jump uses, and the mark resolves to
\* the index of the first instruction of the loop body, the index of the
\* JMP itself when the body emits nothing.
C17_EndlessLoopTarget ==
    (result.tag = "Ok" /\ body \in NestPrograms) =>
        /\ \A i, j \in JumpsOf(Flat(compiler)) :
               i # j => Flat(compiler)[i].arg # Flat(compiler)[j].arg
        /\ \A loop \in LoopsIn(body) :
               \E i \in 1..Len(result.instructions) :
                   LET jmp == result.instructions[i]
                   IN /\ jmp.variant = "JMP"
                      /\ jmp.orig_location = loop
                      /\ jmp.arg = BodyStart(result.instructions, loop, i - 1)

RECURSIVE ConditionalsIn(_)
\* the conditionals of a statement list, at any depth: where each is
\* located, how many branches it has, whether it has an else
ConditionalsIn(stmts) ==
    IF stmts = <<>> THEN {}
    ELSE (CASE Head(stmts).typ = "Conditional" ->
                 {[location |-> Head(stmts).location,
                   branches |-> 1 + Len(Head(stmts).paths),
                   alternate |-> Head(stmts).alternate.some]}
                 \cup ConditionalsIn(Head(stmts).body)
                 \cup UNION {ConditionalsIn(Head(stmts).paths[k].body) :
                                k \in 1..Len(Head(stmts).paths)}
                 \cup ConditionalsIn(Head(stmts).alternate.body)
            [] Head(stmts).typ = "EndlessLoop" -> ConditionalsIn(Head(stmts).body)
            [] OTHER -> {})
         \cup ConditionalsIn(Tail(stmts))

\* the places in instrs of the code of the block located at `block`: what
\* is located there (a branch's comparison and its JMP) and what lies in it
CodeOf(instrs, block) ==
    {j \in 1..Len(instrs) :
        instrs[j].orig_location = block \/ InBody(instrs[j].orig_location, block)}

\* the 0-based index of the first instruction after the code of `block`
EndOf(instrs, block) ==
    CHOOSE e \in 0..Len(instrs) :
        /\ CodeOf(instrs, block) # {} => e \in CodeOf(instrs, block)
        /\ \A j \in CodeOf(instrs, block) : j <= e

\* the k-th branch of the conditional `cond` is laid out as it should be
BranchLaidOut(instrs, cond, k) ==
    LET branch == 10 * cond.location + k
        followed == k < cond.branches \/ cond.alternate
    IN /\ \E j \in CodeOf(instrs, branch) :
              /\ instrs[j].orig_location = branch
              /\ instrs[j].variant \in PlainJumps \ {"JMP"}
              /\ instrs[j].arg = EndOf(instrs, branch)
       /\ \A j \in CodeOf(instrs, branch) :
              (instrs[j].orig_location = branch /\ instrs[j].variant = "JMP") =>
                  /\ followed
                  /\ j = EndOf(instrs, branch)
                  /\ instrs[j].arg = EndOf(instrs, cond.location)
       /\ followed => instrs[EndOf(instrs, branch)].variant = "JMP"

\* C20: for a Conditional at any nesting depth, with any number of elif
\* branches and an optional else, the negated comparison of each branch
\* jumps to the first instruction of what follows the branch (the next
\* branch's comparison, the else body, or the code after the conditional);
\* every branch body followed by another branch ends with JMP end_id and
\* the last one does not; end_id resolves to the index of the first
\* instruction after the whole conditional.
C20_ConditionalLayout ==
    (result.tag = "Ok" /\ body \in CondPrograms) =>
        \A cond \in ConditionalsIn(body) :
            \A k \in 1..cond.branches : BranchLaidOut(result.instructions, cond, k)

----------------------------------------------------------------------------
(* Properties of the parser (specification SpecParse) *)

\* the token list is one block statement whose `end` is missing
IsOpenStatement == parser.source \in {Located(words) : words \in OpenStatements}

\* C18: for each of `if`, `forever` and `while`, when the token list reaches
\* its Eof before the closing `end`, parsing the statement returns an error
\* of kind MissingEnd, and the parser does not abort: the unterminated
\* `if cond body` included, whose branch loop consumes the Eof token.
C18_MissingEndReturned ==
    (IsOpenStatement /\ line >= 1) =>
        /\ parser.panicked = ""
        /\ ~outcomes[1].ok
        /\ outcomes[1].typ = "MissingEnd"

\* the errors of the failed calls among `outs`, in order
RECURSIVE ErrorsOf(_)
ErrorsOf(outs) ==
    IF outs = <<>> THEN <<>>
    ELSE (IF Head(outs).ok THEN <<>>
          ELSE <<[typ |-> Head(outs).typ, location |-> Head(outs).location]>>)
         \o ErrorsOf(Tail(outs))

\* the tokens still queued are the tail of the list produce_ast was given
IsTail(tokens, source) ==
    /\ Len(tokens) <= Len(source)
    /\ tokens = SubSeq(source, Len(source) - Len(tokens) + 1, Len(source))

\* produce_ast has returned
Returned == result.tag # "Pending"

\* what holds of the loop at every moment, and of the result once returned
ProduceAstCollects ==
    /\ IsTail(parser.tokens, parser.source)
    /\ Len(outcomes) = line
    /\ parser.panicked = "" =>
          /\ errors = ErrorsOf(outcomes)
          /\ Len(body) + Len(errors) = line
    /\ Returned =>
          /\ ~more_statements(parser)
          /\ result.errors = ErrorsOf(outcomes)
          /\ result.tag = "Ok" <=> \A i \in 1..Len(outcomes) : outcomes[i].ok
          /\ result.tag = "Err" <=> \E i \in 1..Len(outcomes) : ~outcomes[i].ok

\* a call of parse_statement: made whenever a token other than Eof is next,
\* whatever errors were collected, and consuming at least one token
ParseStatementConsumes ==
    line' # line =>
        /\ more_statements(parser)
        /\ line' = line + 1
        /\ Len(parser'.tokens) < Len(parser.tokens)

----------------------------------------------------------------------------
(* Properties of the emitted code run to its end (specification SpecExec) *)

\* the machine has run the whole program
Halted == machine.on /\ machine.pc = Len(result.instructions)

RECURSIVE ValueOf(_)
\* the value of an expression over x and y as the program assigned them
ValueOf(expr) ==
    CASE expr.typ = "NumericLiteral" -> expr.value
      [] expr.typ = "Identifier" -> IF expr.symbol = "x" THEN XValue ELSE YValue
      [] expr.typ = "BinaryExpr" ->
           ApplyOperator(expr.operator, ValueOf(expr.left), ValueOf(expr.right))

\* C21: for every operator op, the non-commutative Minus included, the code
\* emitted for `x op= v` stores into x's slot the value x op v, the value
\* the code emitted for `x = x op v` stores.
C21_CompoundAssignmentValue ==
    (Halted /\ body \in IAssignPrograms) =>
        machine.mem[0] = ApplyOperator(body[5].operator, XValue, ValueOf(body[5].value))

----------------------------------------------------------------------------
(* Properties of while loops (specification SpecWhile) *)

RECURSIVE WhilesIn(_)
\* the while loops of a statement list, at any depth: where each is
\* located and the operator of its condition
WhilesIn(stmts) ==
    IF stmts = <<>> THEN {}
    ELSE (CASE Head(stmts).typ = "WhileLoop" ->
                 {[location |-> Head(stmts).location,
                   operator |-> Head(stmts).condition.operator]}
                 \cup WhilesIn(Head(stmts).body)
            [] Head(stmts).typ = "EndlessLoop" -> WhilesIn(Head(stmts).body)
            [] OTHER -> {})
         \cup WhilesIn(Tail(stmts))

\* the jumps of the comparisons of the loop located at `loop`
LoopJumps(instrs, loop) ==
    {j \in 1..Len(instrs) :
        instrs[j].orig_location = loop /\ is_jump(instrs[j].variant)}

\* the while loop `loop` is laid out as it should be: its code starts with
\* the negated comparison, whose jump leaves the loop, and ends with the
\* positive comparison, whose jump goes to the instruction after the first
WhileLaidOut(instrs, loop) ==
    LET jumps == LoopJumps(instrs, loop.location)
        first == Min(jumps)
        last == CHOOSE j \in jumps : \A k \in jumps : k <= j
    IN /\ Cardinality(jumps) = 2
       /\ instrs[first].variant = from_op(opposite(loop.operator))
       /\ instrs[first].arg = EndOf(instrs, loop.location)
       /\ last = EndOf(instrs, loop.location)
       /\ instrs[last].variant = from_op(loop.operator)
       /\ instrs[last].arg = first

\* C23: for a WhileLoop at any nesting depth the negated comparison
\* emitted before the body jumps to end_id, the positive comparison emitted
\* as the last instructions of the body scope jumps to start_id, start_id
\* resolves to the index of the first instruction of the body and end_id
\* to the index of the first instruction after the loop.
C23_WhileLoopLayout ==
    (result.tag = "Ok" /\ body \in WhilePrograms) =>
        \A loop \in WhilesIn(body) : WhileLaidOut(result.instructions, loop)

\* the same for the while loops that are top-level statements
C23_TopLevelWhileLayout ==
    (result.tag = "Ok" /\ body \in WhilePrograms) =>
        \A loop \in WhilesIn(body) :
            loop.location < 10 => WhileLaidOut(result.instructions, loop)

----------------------------------------------------------------------------
(* Properties of comparisons when they run (specification SpecExec) *)

\* whether `left op right` holds
Compare(op, left, right) ==
    CASE op = "EqualTo" -> left = right
      [] op = "NotEqualTo" -> left # right
      [] op = "GreaterThan" -> left > right
      [] op = "LessThan" -> left < right
      [] op = "GreaterOrEqual" -> left >= right
      [] op = "LessOrEqual" -> left <= right

RECURSIVE OperandValue(_, _)
\* the value of an operand of CmpOperands when x, y are in slots 0, 1
OperandValue(expr, mem) ==
    CASE expr.typ = "NumericLiteral" -> expr.value
      [] expr.typ = "Identifier" -> IF expr.symbol = "x" THEN mem[0] ELSE mem[1]
      [] expr.typ = "Assignment" -> OperandValue(expr.value, mem)
      [] expr.typ = "BinaryExpr" ->
           ApplyOperator(expr.operator, OperandValue(expr.left, mem),
                         OperandValue(expr.right, mem))

\* the machine is about to execute the conditional jump of a CmpProgram
AtComparisonJump ==
    /\ machine.on
    /\ body \in CmpPrograms
    /\ machine.pc < Len(result.instructions)
    /\ At(result.instructions, machine.pc).variant \in PlainJumps \ {"JMP"}

\* C24: the conditional jump emitted by put_comparison((left, right, op),
\* mark) is taken at run time exactly when `left op right` holds, whether
\* put_ab swapped the operands or not; the conditional `if l op r` hands
\* put_comparison the opposite operator.
C24_JumpTakenIffHolds ==
    [][(AtComparisonJump /\ machine'.steps = machine.steps + 1) =>
          ((machine'.pc = At(result.instructions, machine.pc).arg)
              <=> Compare(opposite(body[5].condition.operator),
                          OperandValue(body[5].condition.left, machine.mem),
                          OperandValue(body[5].condition.right, machine.mem)))]_vars

\* both operands of the comparison assign to z
BothAssign == body[5].condition.left.typ = "Assignment" /\ body[5].condition.right.typ = "Assignment"

\* the same for the comparisons whose operands do not both assign to z
C24_JumpTakenUnlessBothAssign ==
    [][(AtComparisonJump /\ ~BothAssign /\ machine'.steps = machine.steps + 1) =>
          ((machine'.pc = At(result.instructions, machine.pc).arg)
              <=> Compare(opposite(body[5].condition.operator),
                          OperandValue(body[5].condition.left, machine.mem),
                          OperandValue(body[5].condition.right, machine.mem)))]_vars

\* a comparison that put_ab swapped was run
SwappedComparisonRan ==
    /\ AtComparisonJump
    /\ body[5].condition.operator = "GreaterOrEqual"
    /\ body[5].condition.left = NumericLiteral(0, 5)
    /\ body[5].condition.right = Identifier("x", 5)
    /\ At(result.instructions, machine.pc).variant = "JGT"

\* C25: eval_binary_expr and put_ab never fail with the internal error
\* SomethingElseWentWrong for operands built from literals, declared
\* identifiers, assignments and binary expressions, a commutative operator
\* whose left operand is an Assignment of a literal while the right operand
\* is already tracked in A included.
C25_NoInternalError ==
    (body \in BinPrograms \cup CmpPrograms) =>
        \A i \in 1..Len(errors) : errors[i].typ # "SomethingElseWentWrong"

\* the same for the operands with a non-commutative operator
C25_NoInternalErrorMinus ==
    (body \in BinPrograms /\ body[5].operator = "Minus") =>
        \A i \in 1..Len(errors) : errors[i].typ # "SomethingElseWentWrong"

----------------------------------------------------------------------------
(* Properties of modules and scopes (specification SpecUse) *)

\* C26: whenever eval_statement has returned for a top-level statement,
\* with Ok or with Err, the scope stack holds only the global scope and the
\* slots bound in the statement's inner scopes are free again; a top-level
\* `use` is never rejected with UseOutsideGlobalScope.
C26_GlobalScopeBetweenStatements ==
    body \in UsePrograms =>
        /\ Len(compiler.scopes) = 1
        /\ \A i \in DOMAIN compiler.variables :
               compiler.variables[i] <=> i \in Range(compiler.scopes[1].variables)
        /\ \A i \in 1..Len(outcomes) :
               body[i].typ = "Use" => outcomes[i].typ # "UseOutsideGlobalScope"

\* the same as long as no statement has failed
C26_GlobalScopeWhileNoError ==
    (body \in UsePrograms /\ errors = <<>>) =>
        /\ Len(compiler.scopes) = 1
        /\ \A i \in DOMAIN compiler.variables :
               compiler.variables[i] <=> i \in Range(compiler.scopes[1].variables)

\* the statement that the step evaluates, and how it ended
Evaluated == body[line']
Outcome == outcomes'[line']

\* the names of `imports` that a `use` in the global scope loads: each one
\* registered and initialised, up to the first that is not
Loads(imports) ==
    {imports[i] : i \in {j \in 1..Len(imports) :
                            \A k \in 1..j : exist(imports[k])
                                               /\ ModuleRegistry[imports[k]].init_ok}}

\* the step loads and rejects as it should
ModuleStep ==
    /\ compiler'.modules =
          compiler.modules
          \cup (IF Evaluated.typ = "Use" /\ is_root_scope(compiler)
                THEN Loads(Evaluated.imports) ELSE {})
    /\ (Evaluated.typ = "Use" /\ ~is_root_scope(compiler)) =>
          Outcome.typ = "UseOutsideGlobalScope"
    /\ (Evaluated.typ = "EndlessLoop" /\ Evaluated.body[1].typ = "Use") =>
          Outcome.typ = "UseOutsideGlobalScope"
    /\ (Evaluated.typ = "Use" /\ is_root_scope(compiler)
          /\ ~exist(Evaluated.imports[Len(Evaluated.imports)])) =>
          Outcome.typ = "NonexistentModule"
    /\ (Evaluated.typ = "Call"
          /\ Evaluated.function.object.symbol \notin compiler.modules) =>
          Outcome.typ = "UnlodadedModule"

\* a step that fails in one of the three ways changes nothing
FailureChangesNothing ==
    Outcome.typ \in {"UseOutsideGlobalScope", "NonexistentModule", "UnlodadedModule"} =>
        /\ compiler'.modules = compiler.modules
        /\ AllCode(compiler') = AllCode(compiler)

\* C29: a module name is in the loaded set if and only if a `use` naming it
\* was evaluated while only the global scope was on the stack, the registry
\* reported it as existing and its init returned Ok; a `use` in a nested
\* scope fails with UseOutsideGlobalScope, a `use` of an unregistered name
\* with NonexistentModule, a Call on a module that is not loaded with
\* UnloadedModule; none of these failures emits an instruction or changes
\* the loaded set.
C29_ModuleLoading ==
    [][(body \in UsePrograms /\ line' = line + 1) =>
          (ModuleStep /\ FailureChangesNothing)]_vars

\* the same for the steps that do not evaluate a `use` of several names
C29_ModuleLoadingOneName ==
    [][(body \in UsePrograms /\ line' = line + 1) =>
          /\ ModuleStep
          /\ ~(Evaluated.typ = "Use" /\ Len(Evaluated.imports) > 1) =>
                FailureChangesNothing]_vars

----------------------------------------------------------------------------
(* Properties of the state a body starts from (specification SpecState) *)

\* the places in instrs of the code of the body of the block at `block`
BodyCode(instrs, block) ==
    {j \in 1..Len(instrs) : InBody(instrs[j].orig_location, block)}

\* the state tracked after the conditional jump located at `loc` (the first
\* one: a while loop has a second one after its body)
AfterComparison(instrs, loc) ==
    LET jumps == {j \in 1..Len(instrs) :
                     /\ instrs[j].orig_location = loc
                     /\ instrs[j].variant \in PlainJumps \ {"JMP"}}
    IN execute(instrs[Min(jumps)], instrs[Min(jumps)].tracked)

\* whether a body that starts from `state` needs no load for `first`
AlreadyInA(first, state) ==
    \/ first.typ = "NumericLiteral" /\ state.a = Number(first.value)
    \/ first.typ = "Identifier" /\ state.a = Variable(0)

\* the body of `block`, whose first statement is `first`, was compiled
\* starting from `state`: its first instruction was emitted in that state,
\* and it emitted nothing exactly when `state` has the operand in A
StartsFrom(instrs, block, first, state) ==
    IF AlreadyInA(first, state) THEN BodyCode(instrs, block) = {}
    ELSE /\ BodyCode(instrs, block) # {}
         /\ instrs[Min(BodyCode(instrs, block))].tracked = state

\* the location of the last condition of the conditional located at 3
LastCondition(cond) == 10 * 3 + 1 + Len(cond.paths)

\* C30: the body of an EndlessLoop is compiled starting from A = Unknown,
\* B = Unknown whatever the enclosing scope's state is, so the first use of
\* a literal or identifier in the body emits its load; the body of a
\* WhileLoop and every conditional branch start from the enclosing scope's
\* state as it is right after the guarding comparison was emitted.
C30_BodyStartState ==
    (result.tag = "Ok" /\ body \in StatePrograms) =>
        CASE body[3].typ = "EndlessLoop" ->
               /\ StartsFrom(result.instructions, 3, body[3].body[1], DefaultState)
               /\ BodyCode(result.instructions, 3) # {}
          [] body[3].typ = "WhileLoop" ->
               StartsFrom(result.instructions, 3, body[3].body[1],
                          AfterComparison(result.instructions, 3))
          [] body[3].typ = "Conditional" ->
               /\ StartsFrom(result.instructions, 31, body[3].body[1],
                             AfterComparison(result.instructions, 31))
               /\ body[3].paths # <<>> =>
                     StartsFrom(result.instructions, 32, body[3].paths[1].body[1],
                                AfterComparison(result.instructions, 32))
               /\ body[3].alternate.some =>
                     StartsFrom(result.instructions, 39, body[3].alternate.body[1],
                                AfterComparison(result.instructions, LastCondition(body[3])))

\* an endless loop after the statement `1` loaded 1 again
C30_Witness ==
    /\ result.tag = "Ok"
    /\ body[2] = NumericLiteral(1, 2)
    /\ body[3] = EndlessLoop(<<NumericLiteral(1, 31)>>, 3)
    /\ Listing(result.instructions) =
          << <<"LAL", 1, 2>>, <<"LAL", 1, 31>>, <<"JMP", 1, 3>> >>

\* a while loop on x took the x of its body from A, and so did an else body
InheritedLoadElided ==
    /\ result.tag = "Ok"
    /\ body \in StatePrograms
    /\ \/ /\ body[3].typ = "WhileLoop"
          /\ body[3].body[1] = Identifier("x", 31)
          /\ BodyCode(result.instructions, 3) = {}
       \/ /\ body[3].typ = "Conditional"
          /\ body[3].alternate.some
          /\ BodyCode(result.instructions, 39) = {}

----------------------------------------------------------------------------
(* Properties of the register file (specification SpecAlloc) *)

\* the call that the step made
LastCall == outcomes'[1]

\* the bitmap with the entries of `slots` set to `value`
BitmapWith(variables, slots, value) ==
    [i \in DOMAIN variables |-> IF i \in slots THEN value ELSE variables[i]]

\* the scopes below the innermost one, bindings only
OuterBindings(c) == [d \in 1..(Len(c.scopes) - 1) |-> c.scopes[d].variables]

\* the allocation took the lowest free slot and marked it
TookLowestFree ==
    /\ ~compiler.variables[LastCall.val]
    /\ \A i \in DOMAIN compiler.variables : i < LastCall.val => compiler.variables[i]
    /\ compiler'.variables = BitmapWith(compiler.variables, {LastCall.val}, TRUE)

InsertVarStep ==
    IF \E d \in 1..Len(compiler.scopes) : LastCall.symbol \in DOMAIN compiler.scopes[d].variables
    THEN /\ \E d \in 1..Len(compiler.scopes) :
               /\ LastCall.symbol \in DOMAIN compiler.scopes[d].variables
               /\ compiler.scopes[d].variables[LastCall.symbol] = LastCall.val
         /\ compiler' = compiler
    ELSE /\ TookLowestFree
         /\ OuterBindings(compiler') = OuterBindings(compiler)
         /\ Len(compiler'.scopes) = Len(compiler.scopes)
         /\ DOMAIN last_scope(compiler').variables =
               DOMAIN last_scope(compiler).variables \cup {LastCall.symbol}
         /\ last_scope(compiler').variables[LastCall.symbol] = LastCall.val
         /\ \A name \in DOMAIN last_scope(compiler).variables :
               last_scope(compiler').variables[name] = last_scope(compiler).variables[name]

PopScopeStep ==
    /\ compiler'.variables =
          BitmapWith(compiler.variables, Range(last_scope(compiler).variables), FALSE)
    /\ OuterBindings(compiler) = [d \in 1..Len(compiler'.scopes) |-> compiler'.scopes[d].variables]

\* C31: slot allocation returns the lowest index i with variables[i] false
\* and marks it; insert_var of a name already bound in any scope on the
\* stack returns that slot and changes neither the bitmap nor any scope;
\* insert_var of a new name binds it in the innermost scope only; pop_scope
\* clears exactly the bitmap entries of the slots bound in the popped scope.
C31_SlotAllocation ==
    [][line' = line + 1 /\ body = <<>> /\ pagePhase = "idle" =>
          /\ (LastCall.op = "insert_var" /\ LastCall.ok) => InsertVarStep
          /\ (LastCall.op = "insert_temp_var" /\ LastCall.ok) =>
                (TookLowestFree /\ compiler'.scopes = compiler.scopes)
          /\ LastCall.op = "pop_scope" => PopScopeStep]_vars

\* z was declared in an inner scope and took slot 1, which a popped scope
\* had freed, while a temporary held slot 2; x is still bound to slot 0
C31_Witness ==
    /\ body = <<>>
    /\ outcomes = Called("insert_var", "z", OkV(compiler, 1))
    /\ Len(compiler.scopes) = 2
    /\ compiler.scopes[1].variables = ("x" :> 0)
    /\ last_scope(compiler).variables = ("z" :> 1)
    /\ compiler.variables[2]
    /\ compiler.scopes[1].instructions # <<>>

----------------------------------------------------------------------------
(* Properties of reads after an assignment (specification SpecRead) *)

\* the last statement of the program: y = read
ReadStatement ==
    IF body \in OuterInlineReadPrograms
    THEN body[2].body[Len(body[2].body)]
    ELSE body[Len(body)]

\* C32: after x = e has been compiled, a later read of x in the same scope
\* yields the stored value, also when an inline constant named x is visible
\* in some scope on the stack: once the emitted code has run, y holds the
\* value of the expression it was assigned, with the x that slot 0 holds.
C32_ReadYieldsStoredValue ==
    Halted => machine.mem[1] = OperandValue(ReadStatement.value, machine.mem)

\* the same for the programs that declare no inline constant
C32_ReadWithoutInline ==
    (Halted /\ body \in PlainReadPrograms) =>
        machine.mem[1] = OperandValue(ReadStatement.value, machine.mem)

\* a program without an inline constant has stored x = 5 and read x - 1
C32_Witness ==
    /\ Halted
    /\ body \in PlainReadPrograms
    /\ machine.mem[0] = XValue
    /\ machine.mem[1] = XValue - 1

----------------------------------------------------------------------------
(* Properties of binary expressions (specification SpecParse) *)

\* the token list begins with x op 1
IsBinaryStatement == parser.source \in {Located(words) : words \in BinaryStatements}

\* BinaryExpr{left: x, right: 1, operator} over the first three tokens
ExpectedBinaryExpr ==
    BinaryExpr(Identifier("x", TokenRange(1)), NumericLiteral(1, TokenRange(3)),
               parser.source[2].operator, Span(TokenRange(1), TokenRange(3)))

\* C33: for each binary operator op of + - * & | ^, the token sequence
\* a op b parses to a single BinaryExpr{left: a, right: b, operator: op},
\* and no binary-operator token is left unconsumed by the precedence ladder
\* to start the next statement.
C33_BinaryOperatorsParse ==
    (IsBinaryStatement /\ line >= 1) =>
        /\ outcomes[1].ok
        /\ body[1] = ExpectedBinaryExpr
        /\ parser.tokens = <<>> \/ Head(parser.tokens).typ # "BinaryOperator"

\* the same for the operators the ladder has a level for
C33_ArithmeticOperatorsParse ==
    (IsBinaryStatement /\ line >= 1 /\ parser.source[2].operator \in {"Plus", "Minus", "Mult"}) =>
        /\ outcomes[1].ok
        /\ body[1] = ExpectedBinaryExpr
        /\ parser.tokens = <<>> \/ Head(parser.tokens).typ # "BinaryOperator"

\* x - 1 was parsed into one expression and produce_ast returned it
C33_Witness ==
    /\ IsBinaryStatement
    /\ parser.source[2].operator = "Minus"
    /\ Returned
    /\ result.tag = "Ok"
    /\ body = <<ExpectedBinaryExpr>>

----------------------------------------------------------------------------
(* The frame of an insertion of the page pass (specification SpecPage) *)

\* the instruction but for its variant
ArgAndRange(ins) == <<ins.arg, ins.orig_location>>

\* C34: an insertion at position p by insert_disc_jumps increments by
\* exactly one every mark whose value is >= p and leaves every mark < p
\* unchanged, so each mark designates after the insertion the same
\* pre-existing instruction as before; pre-existing instructions keep their
\* relative order, args and source ranges, and only the converted jump
\* changes its variant.
C34_InsertionFrame ==
    [][Len(inserted') > Len(inserted) =>
          /\ DOMAIN jump_marks' = DOMAIN jump_marks
          /\ \A k \in DOMAIN jump_marks :
                /\ jump_marks'[k] =
                      IF jump_marks[k] >= InsertedAt THEN jump_marks[k] + 1 ELSE jump_marks[k]
                /\ jump_marks'[k] = Shifted(jump_marks[k], InsertedAt)
          /\ Len(instructions') = Len(instructions) + 1
          /\ \A i \in 0..(Len(instructions) - 1) :
                /\ ArgAndRange(At(instructions', Shifted(i, InsertedAt))) =
                      ArgAndRange(At(instructions, i))
                /\ At(instructions', Shifted(i, InsertedAt)).variant =
                      IF i = InsertedAt THEN to_disc_jump(At(instructions, i).variant)
                      ELSE At(instructions, i).variant
          /\ At(instructions, InsertedAt).variant # At(instructions', InsertedAt + 1).variant]_vars

\* one insertion was made at the position a mark designated, which now
\* designates the position after it, and the other mark, below it, stayed
C34_Witness ==
    /\ Len(inserted) = 1
    /\ DOMAIN jump_marks = {0, 1}
    /\ \E k \in {0, 1} :
          /\ jump_marks[k] = inserted[1].at + 1
          /\ jump_marks[1 - k] < inserted[1].at
          /\ jump_marks[1 - k] > 0

----------------------------------------------------------------------------
(* Properties of the byte-wide bookkeeping (specification SpecLong) *)

\* scope_len of the global scope is the number of instructions it holds
ScopeLenExact ==
    GlobalLen(compiler) = CodeCount(compiler.scopes[1].instructions)

\* a loop that was evaluated got a mark id that no earlier mark had
FreshMarkId ==
    (line' = line + 1 /\ body[line'].typ = "EndlessLoop" /\ outcomes'[line'].ok) =>
        Cardinality(DOMAIN compiler'.jump_marks) = Cardinality(DOMAIN compiler.jump_marks) + 1

\* the marks that an insertion moved are those at or after its position
TruePosition ==
    Len(inserted') > Len(inserted) =>
        \A k \in DOMAIN jump_marks :
            jump_marks'[k] =
                IF jump_marks[k] >= InsertedAt THEN jump_marks[k] + 1 ELSE jump_marks[k]

\* C35: the jump-mark bookkeeping is exact in its byte-wide arithmetic:
\* scope_len returns the true number of Code instructions of a tree,
\* insert_jump_mark returns an id not yet present in jump_marks, and
\* move_jump_marks receives the true insertion position, also for programs
\* whose flattened length exceeds 255 instructions or that allocate more
\* than 256 marks; no value is reduced modulo 256.
C35_ExactByteBookkeeping ==
    /\ []ScopeLenExact
    /\ [][FreshMarkId]_vars
    /\ [][TruePosition]_vars

\* the same while fewer than U8 instructions and marks exist
C35_ExactBelowTheLimit ==
    /\ [](CodeCount(compiler.scopes[1].instructions) < U8 => ScopeLenExact)
    /\ [][Cardinality(DOMAIN compiler.jump_marks) < U8 => FreshMarkId]_vars
    /\ [][(Len(instructions) < U8 /\ \A k \in DOMAIN jump_marks : jump_marks[k] < U8 - 1)
              => TruePosition]_vars

----------------------------------------------------------------------------
(* Properties of the document store (specification SpecLsp) *)

\* the highest version among the calls
HighestVersion(calls) ==
    CHOOSE v \in {calls[i].version : i \in DOMAIN calls} :
        \A i \in DOMAIN calls : calls[i].version <= v

\* the text of the first call that carried the highest version
FirstWithHighest(calls) ==
    calls[Min({i \in DOMAIN calls : calls[i].version = HighestVersion(calls)})].text

\* the call that the step delivered
LastDelivered == server'.delivered[Len(server'.delivered)]

\* the version never decreases, and a call replaces document and version
\* exactly when its version is higher
ReloadStep ==
    Len(server'.delivered) > Len(server.delivered) =>
        /\ server'.last_document_version >= server.last_document_version
        /\ IF LastDelivered.version > server.last_document_version
           THEN /\ server'.document = LastDelivered.text
                /\ server'.last_document_version = LastDelivered.version
           ELSE /\ server'.document = server.document
                /\ server'.last_document_version = server.last_document_version

\* C36: last_document_version never decreases: reload_document(text, v)
\* replaces the stored document and version if and only if v is greater
\* than last_document_version and otherwise leaves both unchanged, so after
\* any sequence of reloads, in any delivery order, the stored document is
\* the text of the first delivered call that carried the highest version
\* seen.
C36_StoredDocumentIsHighestVersion ==
    /\ [][ReloadStep]_vars
    /\ [](server.delivered # <<>> =>
             server.document = FirstWithHighest(server.delivered))

\* C36 as it holds: the same, the stored document being that text once a
\* version above the initial -1 has been delivered; until then the calls
\* are ignored and the document is the empty one of LspServer::new.
C36_StoredDocumentAboveInitial ==
    /\ [][ReloadStep]_vars
    /\ [](server.delivered # <<>> =>
             IF HighestVersion(server.delivered) > new_server.last_document_version
             THEN /\ server.document = FirstWithHighest(server.delivered)
                  /\ server.last_document_version = HighestVersion(server.delivered)
             ELSE /\ server.document = new_server.document
                  /\ server.last_document_version = new_server.last_document_version)

\* version 1 arrived with text a, then again with text b, then version 0:
\* the document is a
C36_Witness ==
    /\ server.delivered = <<[text |-> "a", version |-> 1], [text |-> "b", version |-> 1],
                            [text |-> "c", version |-> 0]>>
    /\ server.document = "a"
    /\ server.last_document_version = 1

====
